---- MODULE Spec2Model ----
(***************************************************************************)
(* LemmyService (src/index.ts): the federation-aware service object that   *)
(* maps a Lemmy instance's responses to the canonical schema.              *)
(*                                                                         *)
(* Strings are sequences of tokens: a token is one character ("g", "@",    *)
(* "7") or one host name ("kbin.social"), which contains no "@" and no     *)
(* upper-case letter.  JavaScript's undefined and null are the reserved    *)
(* one-token sequences Undefined and Null, distinct from every string.     *)
(***************************************************************************)
EXTENDS Integers, Sequences, FiniteSets, TLC

VARIABLES
    defaultInstance,   \* process.env.LEMMY_DEFAULT_INSTANCE, read at construction
    client,            \* LemmyService.client: the base URL of the LemmyHttp object
    inputInfo,         \* LemmyService.inputInfo
    calls              \* one record per call in progress on the service object

vars == <<defaultInstance, client, inputInfo, calls>>

-----------------------------------------------------------------------------
(* JavaScript values *)

Undefined == <<"undefined">>
Null == <<"null">>

Truthy(s) == s # Undefined /\ s # Null /\ s # <<>>

At == "@"

\* String.prototype.split(separator), the separator one character
RECURSIVE SplitOn(_, _)
SplitOn(s, separator) ==
    IF \A i \in 1..Len(s) : s[i] # separator
    THEN <<s>>
    ELSE LET i == CHOOSE k \in 1..Len(s) :
                      s[k] = separator /\ \A m \in 1..(k - 1) : s[m] # separator
         IN  <<SubSeq(s, 1, i - 1)>> \o SplitOn(SubSeq(s, i + 1, Len(s)), separator)

\* input.split('@')
Split(s) == SplitOn(s, At)

\* const [a, b] = parts: a missing element is undefined
Elem(parts, k) == IF k <= Len(parts) THEN parts[k] ELSE Undefined

\* x?.split('@') || []
SplitOrEmpty(s) == IF s = Undefined THEN <<>> ELSE Split(s)

-----------------------------------------------------------------------------
(* Configuration *)

kbin == <<"kbin.social">>
lemmyWorld == <<"lemmy.world">>
beehaw == <<"beehaw.org">>

\* the values LEMMY_DEFAULT_INSTANCE is deployed with
Deployments == {lemmyWorld, kbin}

\* readonly kbinDefaultInstance = process.env.LEMMY_DEFAULT_INSTANCE!
kbinDefaultInstance == defaultInstance

NoIds == [some |-> FALSE, postId |-> Undefined, commentId |-> Undefined]
Ids(postId, commentId) == [some |-> TRUE, postId |-> postId, commentId |-> commentId]

NoInfo == [primaryInput |-> Undefined, inputAtInstance |-> Undefined,
           instance |-> Undefined, postId |-> Undefined]

-----------------------------------------------------------------------------
(* LemmyService.setClient *)

\* faulty variant: a post id without an instance falls through to the other hints
PickInstanceFallingThrough(postId, postInstance, groupInstance, inputInstance) ==
    IF Truthy(postId) /\ Truthy(postInstance) THEN postInstance
    ELSE IF Truthy(groupInstance) THEN groupInstance ELSE inputInstance

\* const instance = (postId ? postInstance : groupInstance || inputInstance)
PickInstance(postId, postInstance, groupInstance, inputInstance) ==
    IF Truthy(postId) THEN postInstance
    ELSE IF Truthy(groupInstance) THEN groupInstance ELSE inputInstance

ConnectionInstance(instanceOrDefault) ==
    IF instanceOrDefault = kbin THEN kbinDefaultInstance ELSE instanceOrDefault

\* The values setClient assigns to this.client and this.inputInfo.
SetClient(inputArg, ids, group) ==
    LET input == IF inputArg = Undefined THEN <<>> ELSE inputArg
        inputParts == Split(input)
        primaryInput == Elem(inputParts, 1)
        inputInstance == Elem(inputParts, 2)
        postParts == IF ids.some THEN Split(ids.postId) ELSE <<>>
        postId == Elem(postParts, 1)
        postInstance == Elem(postParts, 2)
        groupParts == SplitOrEmpty(group)
        groupInstance == Elem(groupParts, 2)
        instance == PickInstance(postId, postInstance, groupInstance, inputInstance)
        instanceOrDefault == IF Truthy(instance) THEN instance ELSE defaultInstance
        connectionInstance == ConnectionInstance(instanceOrDefault)
        inputAtInstance == IF Truthy(primaryInput)
                           THEN primaryInput \o <<At>> \o instanceOrDefault
                           ELSE Undefined
    IN  [client |-> <<"https://">> \o connectionInstance,
         inputInfo |-> [primaryInput |-> primaryInput,
                        inputAtInstance |-> inputAtInstance,
                        instance |-> instance,
                        postId |-> postId],
         ok |-> TRUE]

-----------------------------------------------------------------------------
(* Characters and numbers *)

LowerCase == <<"a", "b", "c", "d", "e", "f", "g", "h", "i", "j", "k", "l", "m",
               "n", "o", "p", "q", "r", "s", "t", "u", "v", "w", "x", "y", "z">>
UpperCase == <<"A", "B", "C", "D", "E", "F", "G", "H", "I", "J", "K", "L", "M",
               "N", "O", "P", "Q", "R", "S", "T", "U", "V", "W", "X", "Y", "Z">>

LowerChar(ch) ==
    IF \E i \in 1..Len(UpperCase) : UpperCase[i] = ch
    THEN LowerCase[CHOOSE i \in 1..Len(UpperCase) : UpperCase[i] = ch]
    ELSE ch
UpperChar(ch) ==
    IF \E i \in 1..Len(LowerCase) : LowerCase[i] = ch
    THEN UpperCase[CHOOSE i \in 1..Len(LowerCase) : LowerCase[i] = ch]
    ELSE ch

\* String.prototype.toLowerCase
ToLowerCase(s) == [i \in 1..Len(s) |-> LowerChar(s[i])]

\* String.prototype.startsWith
StartsWith(s, prefix) ==
    Len(prefix) <= Len(s) /\ SubSeq(s, 1, Len(prefix)) = prefix

Digits == <<"0", "1", "2", "3", "4", "5", "6", "7", "8", "9">>
IsDigit(ch) == \E i \in 1..Len(Digits) : Digits[i] = ch
DigitValue(ch) == (CHOOSE i \in 1..Len(Digits) : Digits[i] = ch) - 1

\* A JavaScript number: an integer or NaN.
Num(v) == [nan |-> FALSE, v |-> v]
NaN == [nan |-> TRUE, v |-> 0]

RECURSIVE DigitsValue(_)
DigitsValue(s) ==
    IF s = <<>> THEN 0
    ELSE DigitsValue(SubSeq(s, 1, Len(s) - 1)) * Len(Digits) + DigitValue(s[Len(s)])

\* Number(s) of a string: the empty string is 0, a decimal numeral its value,
\* anything else (here: a string with a non-digit) NaN.
Number(s) ==
    IF s = Undefined THEN NaN
    ELSE IF \A i \in 1..Len(s) : IsDigit(s[i]) THEN Num(DigitsValue(s))
    ELSE NaN

RECURSIVE NatToString(_)
NatToString(n) ==
    IF n < Len(Digits) THEN <<Digits[n + 1]>>
    ELSE NatToString(n \div Len(Digits)) \o <<Digits[(n % Len(Digits)) + 1]>>

\* Number.prototype.toString
NumberToString(x) ==
    IF x.nan THEN <<"N", "a", "N">>
    ELSE IF x.v < 0 THEN <<"-">> \o NatToString(-x.v)
    ELSE NatToString(x.v)

\* x + k and x > k on JavaScript numbers
Plus(x, k) == IF x.nan THEN NaN ELSE Num(x.v + k)
GreaterThan(x, k) == ~x.nan /\ x.v > k

Min(a, b) == IF a < b THEN a ELSE b
Max(a, b) == IF a > b THEN a ELSE b

-----------------------------------------------------------------------------
(* Filters *)

maxQuery == 50
maxQueryLength == 25
scalingFactor == 8

sortTypes == {
    <<"A","c","t","i","v","e">>, <<"H","o","t">>, <<"N","e","w">>, <<"O","l","d">>,
    <<"T","o","p","D","a","y">>, <<"T","o","p","W","e","e","k">>,
    <<"T","o","p","M","o","n","t","h">>, <<"T","o","p","Y","e","a","r">>,
    <<"T","o","p","A","l","l">>,
    <<"M","o","s","t","C","o","m","m","e","n","t","s">>,
    <<"N","e","w","C","o","m","m","e","n","t","s">>,
    <<"T","o","p","H","o","u","r">>, <<"T","o","p","S","i","x","H","o","u","r">>,
    <<"T","o","p","T","w","e","l","v","e","H","o","u","r">>,
    <<"T","o","p","T","h","r","e","e","M","o","n","t","h","s">>,
    <<"T","o","p","S","i","x","M","o","n","t","h","s">>,
    <<"T","o","p","N","i","n","e","M","o","n","t","h","s">> }

commentSortTypes == { <<"H","o","t">>, <<"T","o","p">>, <<"N","e","w">>, <<"O","l","d">> }

\* faulty variant: the first letter is left as it is
capitalizeNothing(str) == str

capitalizeFirstLetter(str) ==
    IF Len(str) = 0 THEN str
    ELSE <<UpperChar(str[1])>> \o SubSeq(str, 2, Len(str))

processFilters(limit, page, sort, secondarySort) ==
    LET pageNumber == IF Truthy(page) THEN Number(page) ELSE Num(1)
        primarySort == IF Truthy(sort)
                       THEN capitalizeFirstLetter(ToLowerCase(sort))
                       ELSE Undefined
        compound == IF Truthy(secondarySort)
                    THEN primarySort \o capitalizeFirstLetter(ToLowerCase(secondarySort))
                    ELSE primarySort
        sorted == IF ~Truthy(sort) THEN sort
                  ELSE IF compound \in sortTypes THEN compound
                  ELSE IF primarySort \in sortTypes THEN primarySort
                  ELSE Undefined
    IN  [limit |-> limit, page |-> pageNumber, sort |-> sorted,
         primarySort |-> primarySort]

processCommentFilters(limit, sort) ==
    LET capital == IF Truthy(sort) THEN capitalizeFirstLetter(ToLowerCase(sort)) ELSE sort
    IN  [limit |-> Min(limit, maxQuery),
         sort |-> IF ~Truthy(sort) THEN sort
                  ELSE IF capital \in commentSortTypes THEN capital ELSE Undefined]

\* faulty variant: the estimate is not held up to the limit asked for
estimateSearchLimitUnclamped(autocompleteLimit, query) ==
    (2 * autocompleteLimit
        * (maxQueryLength * (1 + scalingFactor) - scalingFactor * Len(query))
     + maxQueryLength) \div (2 * maxQueryLength)

\* Math.max(limit, Math.round(limit * (1 + (1 - length / 25) * 8))); the product
\* is limit * (225 - 8 * length) / 25, never half-way between two integers, so
\* Math.round is the floor of the value plus one half.
estimateSearchLimit(autocompleteLimit, query) ==
    LET scaled == autocompleteLimit
                    * (maxQueryLength * (1 + scalingFactor) - scalingFactor * Len(query))
        rounded == (2 * scaled + maxQueryLength) \div (2 * maxQueryLength)
    IN  Max(autocompleteLimit, rounded)

\* processSearchTypeFilters: one filter set per category, in the given order;
\* a single category (not an array) is wrapped into a one-element array by
\* the caller.
processSearchTypeFilters(filters, searchType) ==
    [j \in 1..Len(searchType) |-> [filters |-> filters, searchType |-> searchType[j]]]

processSearchFilters(limit, page, sort, secondarySort, exact, query, searchType) ==
    LET lim == IF exact THEN Min(estimateSearchLimit(limit, query), maxQuery)
               ELSE Min(limit, maxQuery)
        f == processFilters(lim, page, sort, secondarySort)
    IN  processSearchTypeFilters(
            [q |-> query, limit |-> f.limit, page |-> f.page, sort |-> f.sort,
             primarySort |-> f.primarySort], searchType)

processAutocompleteFilters(limit, query, searchType) ==
    processSearchTypeFilters(
        [q |-> query, limit |-> Min(estimateSearchLimit(limit, query), maxQuery),
         page |-> NaN, sort |-> Undefined, primarySort |-> Undefined], searchType)

-----------------------------------------------------------------------------
(* Entity mapping *)

\* faulty variant: the default instance is spelled out like any other
inputAtAnyInstance(input, instance) ==
    IF Truthy(instance) THEN input \o <<At>> \o instance ELSE input

\* inputAtNonDefaultInstance
inputAtNonDefaultInstance(input, instance) ==
    IF Truthy(instance) /\ instance # defaultInstance
    THEN input \o <<At>> \o instance
    ELSE input

\* Upstream views.  A post view carries its numeric id, its title (name), the
\* name of its community and the host of the community's actor URL.
PostView(id, name, community, host) ==
    [kind |-> "post", id |-> id, name |-> name, community |-> community, host |-> host,
     score |-> id, published |-> id * 1000 + 999, hot_rank |-> id]
CommunityView(id, name, host) ==
    [kind |-> "community", id |-> id, name |-> name, host |-> host]
PersonView(id, name, host) ==
    [kind |-> "person", id |-> id, name |-> name, host |-> host]

\* buildPost up to its await: the record Everything.post is given.
\* info is this.inputInfo at the time buildPost runs.
buildPost(postView, info) ==
    LET id == inputAtNonDefaultInstance(NumberToString(Num(postView.id)), info.instance)
        postSubreddit == inputAtNonDefaultInstance(postView.community, postView.host)
        createdUtc == postView.published \div 1000
    IN  [kind |-> "post",
         id |-> id,
         title |-> postView.name,
         name |-> <<"t3_">> \o id,
         subreddit |-> postSubreddit,
         permalink |-> <<"/r/">> \o postSubreddit \o <<"/comments/">> \o id,
         score |-> postView.score,
         created_utc |-> createdUtc,
         hot_rank |-> postView.hot_rank]

\* buildGroup
buildGroup(communityView, subreddit) ==
    LET displayName == IF Truthy(subreddit) THEN subreddit
                       ELSE inputAtNonDefaultInstance(communityView.name, communityView.host)
    IN  [kind |-> "group",
         id |-> NumberToString(Num(communityView.id)),
         title |-> communityView.name,
         display_name |-> displayName]

\* buildUser
buildUser(personView) ==
    LET displayName == inputAtNonDefaultInstance(personView.name, personView.host)
    IN  [kind |-> "user",
         id |-> NumberToString(Num(personView.id)),
         name |-> displayName]

\* A comment view carries its id, its dot-separated ancestor path, the id of
\* its post and the name and host of its community.
CommentView(id, path, post, community, host, score, published, hot_rank) ==
    [id |-> id, community |-> community, host |-> host, kind |-> "comment",
     score |-> score, published |-> published, hot_rank |-> hot_rank,
     path |-> path, post |-> post]

Dot == "."

\* faulty variant: the first segment of the path is taken for the parent
getParentIdOfFirst(commentView) == Number(SplitOn(commentView.path, Dot)[1])

\* getParentId: Number(pathSegments[pathSegments.length - 2])
getParentId(commentView) ==
    LET pathSegments == SplitOn(commentView.path, Dot)
    IN  Number(IF Len(pathSegments) >= 2 THEN pathSegments[Len(pathSegments) - 1]
               ELSE Undefined)

\* a number used as a condition: 0 and NaN are falsy
TruthyNumber(x) == ~x.nan /\ x.v # 0

\* buildComment; info is this.inputInfo at the time it runs
buildComment(commentView, info) ==
    LET id == NumberToString(Num(commentView.id))
        parentId == getParentId(commentView)
        postId == inputAtNonDefaultInstance(NumberToString(Num(commentView.post)),
                                            info.instance)
        postSubreddit == inputAtNonDefaultInstance(commentView.community, commentView.host)
        linkId == <<"t3_">> \o postId
    IN  [kind |-> "comment",
         id |-> id,
         link_id |-> linkId,
         name |-> <<"t1_">> \o id,
         parent_id |-> IF TruthyNumber(parentId)
                       THEN <<"t1_">> \o NumberToString(parentId) ELSE linkId,
         subreddit |-> postSubreddit,
         score |-> commentView.score,
         created_utc |-> commentView.published \div 1000,
         depth |-> Len(SplitOn(commentView.path, Dot)) - 2,
         permalink |-> <<"/r/">> \o postSubreddit \o <<"/comments/">> \o postId
                          \o <<"/_/">> \o id \o <<"/">>,
         hot_rank |-> commentView.hot_rank]

\* faulty variant: a bucket keeps only the first comment put into it
BucketOfFirst(flatComments, key) ==
    LET Positions[n \in 0..Len(flatComments)] ==
            IF n = 0 THEN <<>>
            ELSE IF NumberToString(getParentId(flatComments[n])) = key
                    /\ Positions[n - 1] = <<>>
                 THEN <<n>>
                 ELSE Positions[n - 1]
    IN  Positions[Len(flatComments)]

\* nestComments.  The buckets are keyed by the parent id as a property name;
\* a bucket is the sequence of the positions, in flatComments, of the
\* comments with that parent id.
Bucket(flatComments, key) ==
    LET Positions[n \in 0..Len(flatComments)] ==
            IF n = 0 THEN <<>>
            ELSE IF NumberToString(getParentId(flatComments[n])) = key
                 THEN Append(Positions[n - 1], n)
                 ELSE Positions[n - 1]
    IN  Positions[Len(flatComments)]

\* faulty variant: the focused comment is not looked for
RootKeyOfPost(ids, flatComments) == <<"0">>

\* rootId: the parent id of the last comment whose id is ids.commentId
RootKey(ids, flatComments) ==
    LET focused == { n \in 1..Len(flatComments) :
                       NumberToString(Num(flatComments[n].id)) = ids.commentId }
        last == CHOOSE n \in focused : \A m \in focused : m <= n
    IN  IF focused # {} /\ TruthyNumber(getParentId(flatComments[last]))
        THEN NumberToString(getParentId(flatComments[last]))
        ELSE <<"0">>

\* container.everythingComment.data.replies = Everything.list({children}):
\* the comment with its replies slot set
WithReplies(everythingComment, replies) ==
    [kind |-> everythingComment.kind,
     id |-> everythingComment.id,
     link_id |-> everythingComment.link_id,
     name |-> everythingComment.name,
     parent_id |-> everythingComment.parent_id,
     subreddit |-> everythingComment.subreddit,
     score |-> everythingComment.score,
     created_utc |-> everythingComment.created_utc,
     depth |-> everythingComment.depth,
     permalink |-> everythingComment.permalink,
     hot_rank |-> everythingComment.hot_rank,
     replies |-> replies]

\* faulty variant: the replies slot is set for every comment, empty or not
RECURSIVE CommentNodeWithSlot(_, _, _, _)
CommentNodeWithSlot(flatComments, info, n, fuel) ==
    LET everythingComment == buildComment(flatComments[n], info)
        replies == IF fuel > 0
                   THEN Bucket(flatComments, NumberToString(Num(flatComments[n].id)))
                   ELSE <<>>
    IN  WithReplies(everythingComment,
                    [k \in 1..Len(replies) |->
                       CommentNodeWithSlot(flatComments, info, replies[k], fuel - 1)])

\* The canonical comment at position n with its replies slot: the slot is set
\* only when the bucket keyed by the comment's own id is not empty.  The
\* containers are shared objects, so the slot of a comment holds the nodes of
\* its bucket whatever the order in which the buckets were visited; fuel
\* bounds the unfolding of a path that names a comment as its own ancestor.
RECURSIVE CommentNode(_, _, _, _)
CommentNode(flatComments, info, n, fuel) ==
    LET everythingComment == buildComment(flatComments[n], info)
        replies == Bucket(flatComments, NumberToString(Num(flatComments[n].id)))
    IN  IF Len(replies) # 0 /\ fuel > 0
        THEN WithReplies(everythingComment,
                         [k \in 1..Len(replies) |->
                            CommentNode(flatComments, info, replies[k], fuel - 1)])
        ELSE everythingComment

nestComments(ids, flatComments, info) ==
    LET root == Bucket(flatComments, RootKey(ids, flatComments))
    IN  [k \in 1..Len(root) |->
           CommentNode(flatComments, info, root[k], Len(flatComments))]

New == <<"N", "e", "w">>
Old == <<"O", "l", "d">>
Top == <<"T", "o", "p">>
Hot == <<"H", "o", "t">>

\* faulty variant: Top compares the scores the other way round
PrecedesTopAscending(rule, left, right) ==
    IF rule = New THEN left.created_utc > right.created_utc
    ELSE IF rule = Old THEN left.created_utc < right.created_utc
    ELSE IF rule = Top THEN left.score < right.score
    ELSE left.hot_rank > right.hot_rank

\* The comparators of the cases of the switch: compare(left, right) < 0.
Precedes(rule, left, right) ==
    IF rule = New THEN left.created_utc > right.created_utc
    ELSE IF rule = Old THEN left.created_utc < right.created_utc
    ELSE IF rule = Top THEN left.score > right.score
    ELSE left.hot_rank > right.hot_rank

\* Array.prototype.sort is stable: an element is placed behind every earlier
\* element it does not have to precede.
RECURSIVE InsertSorted(_, _, _)
InsertSorted(sorted, x, rule) ==
    IF sorted = <<>> THEN <<x>>
    ELSE IF Precedes(rule, x, sorted[Len(sorted)])
         THEN Append(InsertSorted(SubSeq(sorted, 1, Len(sorted) - 1), x, rule),
                     sorted[Len(sorted)])
         ELSE Append(sorted, x)

RECURSIVE SortedBy(_, _)
SortedBy(items, rule) ==
    IF items = <<>> THEN <<>>
    ELSE InsertSorted(SortedBy(SubSeq(items, 1, Len(items) - 1), rule),
                      items[Len(items)], rule)

\* switch (primarySort || 'New'): no case for any other token
SortDetails(details, primarySort) ==
    LET rule == IF Truthy(primarySort) THEN primarySort ELSE New IN
    IF rule \in {New, Old, Top, Hot} THEN SortedBy(details, rule) ELSE details

-----------------------------------------------------------------------------
(* Calls *)

CallIds == {"A", "B"}

NoArgs == [input |-> Undefined, group |-> Undefined, username |-> Undefined, query |-> Undefined,
           id |-> Undefined, ids |-> NoIds, page |-> Undefined, sort |-> Undefined,
           secondarySort |-> Undefined, limit |-> 0, userDetail |-> "none",
           searchType |-> <<>>, exact |-> FALSE, searchInGroup |-> FALSE, depth |-> 0,
           instance |-> Undefined]

NoError == [lane |-> 0, at |-> "none", index |-> 0]
RequestError(j) == [lane |-> j, at |-> "request", index |-> 0]
EnrichError(j, i) == [lane |-> j, at |-> "buildMetadata", index |-> i]

\* What a call returned.
NoResult == [type |-> "none", children |-> <<>>, after |-> Null, before |-> Null,
             dist |-> 0, comments |-> <<>>]
Unimplemented == [NoResult EXCEPT !.type = "Unimplemented"]
Single(record) == [NoResult EXCEPT !.type = "record", !.children = <<record>>]

\* The value of a promise that has not settled.
Pending == [kind |-> "pending"]

\* One upstream request of a call and what follows its response: how the
\* upstream answered, the raw response, the records built from it, and the
\* values array of the Promise.all over the records' buildMetadata.
NewLane == [st |-> "await", upstream |-> "pending", raw |-> <<>>, built |-> <<>>,
            values |-> <<>>, err |-> NoError]

IdleCall == [op |-> "none", pc |-> "idle", args |-> NoArgs, page |-> NaN,
             primarySort |-> Undefined, reqs |-> <<>>, lanes |-> <<>>,
             comments |-> <<>>,
             merged |-> 0, results |-> <<>>, error |-> NoError, result |-> NoResult]

\* faulty variant: the values are collected in the order the promises settle
StoreInSettlingOrder(values, i, v) ==
    [values EXCEPT ![CHOOSE k \in 1..Len(values) :
                        /\ values[k].kind = "pending"
                        /\ \A m \in 1..(k - 1) : values[m].kind # "pending"] = v]

\* Promise.all: the value of promise i is stored at index i
PromiseAllStore(values, i, v) == [values EXCEPT ![i] = v]

\* Promise.all resolves once every promise has
PromiseAllResolved(values) == \A i \in 1..Len(values) : values[i].kind # "pending"

\* The paged list: Everything.list({after, dist, children, before})
ListAfter(n, page) == IF n # 0 THEN NumberToString(Plus(page, 1)) ELSE Null
\* faulty variant: the first page gets a previous page too
ListBeforeFromFirst(page) ==
    IF GreaterThan(page, 0) THEN NumberToString(Plus(page, -1)) ELSE Null

ListBefore(page) == IF GreaterThan(page, 1) THEN NumberToString(Plus(page, -1)) ELSE Null

PagedList(children, page) ==
    [NoResult EXCEPT !.type = "list", !.children = children,
                     !.after = ListAfter(Len(children), page),
                     !.before = ListBefore(page), !.dist = Len(children)]

PlainList(children) ==
    [NoResult EXCEPT !.type = "list", !.children = children, !.dist = Len(children)]

\* getNestedComments' pair: the list of the post and the list of the comment tree
NestedResult(post, nestedComments) ==
    [NoResult EXCEPT !.type = "nested", !.children = <<post>>, !.dist = 1,
                     !.comments = nestedComments]

\* faulty variant: the request goes over the connection the service object
\* held when the operation was called
RequestOverHeldConnection(kind, name, id, page, sort, limit) ==
    [host |-> client, kind |-> kind, name |-> name, id |-> id, page |-> page,
     sort |-> sort, limit |-> limit]

\* A request of the call: this.client is read in the synchronous run of the
\* setClient that precedes it, so it goes over the connection that setClient
\* has just opened.
Request(kind, name, id, page, sort, limit) ==
    [host |-> client', kind |-> kind, name |-> name, id |-> id, page |-> page,
     sort |-> sort, limit |-> limit]

\* An upstream response: a failure, or the views it carries.
Failure == [ok |-> FALSE, items |-> <<>>, comments |-> <<>>]
Response(items) == [ok |-> TRUE, items |-> items, comments |-> <<>>]
DetailsResponse(posts, comments) == [ok |-> TRUE, items |-> posts, comments |-> comments]

Returned(call, result) == [call EXCEPT !.pc = "done", !.result = result]
Thrown(call, error) ==
    [call EXCEPT !.pc = "failed", !.error = error,
                 !.lanes[error.lane].st = "rejected", !.lanes[error.lane].err = error]

\* The upstream answers request j of the call.
Answered(call, j, resp) ==
    [call EXCEPT !.lanes[j].upstream = IF resp.ok THEN "ok" ELSE "failed"]

\* The call runs setClient: both fields of the service object are overwritten.
RunSetClient(sc) ==
    /\ client' = sc.client
    /\ inputInfo' = sc.inputInfo

-----------------------------------------------------------------------------
(* getGroup *)

InvokeGetGroup(c, group) ==
    /\ calls[c].pc = "idle"
    /\ LET sc == SetClient(group, NoIds, Undefined)
           call == [calls[c] EXCEPT !.op = "getGroup", !.args.group = group]
       IN  /\ RunSetClient(sc)
           /\ calls' = [calls EXCEPT ![c] =
                IF ~sc.ok THEN Returned(call, Unimplemented)
                ELSE [call EXCEPT
                        !.pc = "await",
                        !.reqs = <<Request("getCommunity", sc.inputInfo.inputAtInstance,
                                           Undefined, NaN, Undefined, 0)>>,
                        !.lanes = <<NewLane>>]]
    /\ UNCHANGED defaultInstance

RespondGetGroup(c, resp) ==
    /\ calls[c].op = "getGroup"
    /\ calls[c].pc = "await"
    /\ calls' = [calls EXCEPT ![c] =
         LET call == Answered(@, 1, resp) IN
         IF ~resp.ok THEN Thrown(call, RequestError(1))
         ELSE Returned(call, Single(buildGroup(resp.items[1], call.args.group)))]
    /\ UNCHANGED <<defaultInstance, client, inputInfo>>

(* getUser *)

InvokeGetUser(c, username) ==
    /\ calls[c].pc = "idle"
    /\ LET sc == SetClient(username, NoIds, Undefined)
           call == [calls[c] EXCEPT !.op = "getUser", !.args.username = username]
       IN  /\ RunSetClient(sc)
           /\ calls' = [calls EXCEPT ![c] =
                IF ~sc.ok THEN Returned(call, Unimplemented)
                ELSE [call EXCEPT
                        !.pc = "await",
                        !.reqs = <<Request("getPersonDetails", sc.inputInfo.inputAtInstance,
                                           Undefined, NaN, Undefined, 0)>>,
                        !.lanes = <<NewLane>>]]
    /\ UNCHANGED defaultInstance

RespondGetUser(c, resp) ==
    /\ calls[c].op = "getUser"
    /\ calls[c].pc = "await"
    /\ calls' = [calls EXCEPT ![c] =
         LET call == Answered(@, 1, resp) IN
         IF ~resp.ok THEN Thrown(call, RequestError(1))
         ELSE Returned(call, Single(buildUser(resp.items[1])))]
    /\ UNCHANGED <<defaultInstance, client, inputInfo>>

-----------------------------------------------------------------------------
(* buildPost's await of buildMetadata, under Promise.all *)

\* The records of the response's posts, built in response order before any
\* buildMetadata settles; each reads this.inputInfo as it is now.
StartBuild(lane, posts) ==
    [lane EXCEPT !.st = "enrich",
                 !.raw = posts,
                 !.built = [i \in 1..Len(posts) |-> buildPost(posts[i], inputInfo)],
                 !.values = [i \in 1..Len(posts) |-> Pending]]

\* buildMetadata of record i has resolved: buildPost returns the record.
Enriched(lane, i) ==
    [lane EXCEPT !.values = PromiseAllStore(@, i, lane.built[i])]

CanEnrich(call, j, i) ==
    /\ call.pc = "enrich"
    /\ j \in 1..Len(call.lanes)
    /\ call.lanes[j].st = "enrich"
    /\ i \in 1..Len(call.lanes[j].values)
    /\ call.lanes[j].values[i].kind = "pending"

-----------------------------------------------------------------------------
(* getPost *)

InvokeGetPost(c, id, group) ==
    /\ calls[c].pc = "idle"
    /\ LET sc == SetClient(group, Ids(id, Undefined), Undefined)
           call == [calls[c] EXCEPT !.op = "getPost", !.args.id = id,
                                    !.args.group = group]
       IN  /\ RunSetClient(sc)
           /\ calls' = [calls EXCEPT ![c] =
                IF ~sc.ok THEN Returned(call, Unimplemented)
                ELSE [call EXCEPT
                        !.pc = "await",
                        !.reqs = <<Request("getPost", Undefined,
                                           Number(sc.inputInfo.postId), NaN, Undefined, 0)>>,
                        !.lanes = <<NewLane>>]]
    /\ UNCHANGED defaultInstance

RespondGetPost(c, resp) ==
    /\ calls[c].op = "getPost"
    /\ calls[c].pc = "await"
    /\ calls' = [calls EXCEPT ![c] =
         LET call == Answered(@, 1, resp) IN
         IF ~resp.ok THEN Thrown(call, RequestError(1))
         ELSE [call EXCEPT !.pc = "enrich", !.lanes[1] = StartBuild(@, resp.items)]]
    /\ UNCHANGED <<defaultInstance, client, inputInfo>>

EnrichGetPost(c, ok) ==
    /\ calls[c].op = "getPost"
    /\ CanEnrich(calls[c], 1, 1)
    /\ calls' = [calls EXCEPT ![c] =
         IF ~ok THEN Thrown(@, EnrichError(1, 1))
         ELSE Returned([@ EXCEPT !.lanes[1] = Enriched(@, 1)], Single(@.lanes[1].built[1]))]
    /\ UNCHANGED <<defaultInstance, client, inputInfo>>

-----------------------------------------------------------------------------
(* getPosts *)

\* faulty variant: the guard is missing
GetPostsNeverDeclines(info) == FALSE

\* if (this.defaultInstance === kbin && !this.inputInfo.inputAtInstance)
GetPostsDeclines(info) == defaultInstance = kbin /\ ~Truthy(info.inputAtInstance)

InvokeGetPosts(c, group, limit, page, sort, secondarySort) ==
    /\ calls[c].pc = "idle"
    /\ LET filters == processFilters(limit, page, sort, secondarySort)
           sc == SetClient(group, NoIds, Undefined)
           call == [calls[c] EXCEPT !.op = "getPosts", !.args.group = group,
                                    !.args.limit = limit, !.args.page = page,
                                    !.args.sort = sort,
                                    !.args.secondarySort = secondarySort,
                                    !.page = filters.page,
                                    !.primarySort = filters.primarySort]
       IN  /\ RunSetClient(sc)
           /\ calls' = [calls EXCEPT ![c] =
                IF ~sc.ok THEN Returned(call, Unimplemented)
                ELSE IF GetPostsDeclines(sc.inputInfo) THEN Returned(call, Unimplemented)
                ELSE [call EXCEPT
                        !.pc = "await",
                        !.reqs = <<Request("getPosts", sc.inputInfo.inputAtInstance,
                                           NaN, filters.page, filters.sort, filters.limit)>>,
                        !.lanes = <<NewLane>>]]
    /\ UNCHANGED defaultInstance

\* await Promise.all(postsResponse.posts.map(this.buildPost)) of no post
\* resolves without any buildMetadata.
GetPostsJoin(call) ==
    IF PromiseAllResolved(call.lanes[1].values)
    THEN Returned([call EXCEPT !.lanes[1].st = "resolved"],
                  PagedList(call.lanes[1].values, call.page))
    ELSE call

RespondGetPosts(c, resp) ==
    /\ calls[c].op = "getPosts"
    /\ calls[c].pc = "await"
    /\ calls' = [calls EXCEPT ![c] =
         LET call == Answered(@, 1, resp) IN
         IF ~resp.ok THEN Thrown(call, RequestError(1))
         ELSE GetPostsJoin([call EXCEPT !.pc = "enrich",
                                        !.lanes[1] = StartBuild(@, resp.items)])]
    /\ UNCHANGED <<defaultInstance, client, inputInfo>>

EnrichGetPosts(c, i, ok) ==
    /\ calls[c].op = "getPosts"
    /\ CanEnrich(calls[c], 1, i)
    /\ calls' = [calls EXCEPT ![c] =
         IF ~ok THEN Thrown(@, EnrichError(1, i))
         ELSE GetPostsJoin([@ EXCEPT !.lanes[1] = Enriched(@, i)])]
    /\ UNCHANGED <<defaultInstance, client, inputInfo>>

-----------------------------------------------------------------------------
(* search and autocomplete *)

\* SearchType -> searchTypeName of the class in searchTypes
searchTypeName(searchType) ==
    CASE searchType = "Group" -> "Communities"
      [] searchType = "User" -> "Users"
      [] searchType = "Post" -> "Posts"

\* the predicate autocomplete's closure gives filterResults
AutocompleteKeeps(result, q) == StartsWith(ToLowerCase(result.name), ToLowerCase(q))

\* faulty variant: the names are compared as they are spelled
SearchKeepsCaseSensitive(result, q, exact) ==
    IF exact THEN result.name = q ELSE TRUE

\* the predicate search's closure gives filterResults
SearchKeeps(result, q, exact) ==
    IF exact THEN ToLowerCase(result.name) = ToLowerCase(q) ELSE TRUE

\* Array.prototype.filter
RECURSIVE Filter(_, _)
Filter(items, keep) ==
    IF items = <<>> THEN <<>>
    ELSE (IF keep[1] THEN <<items[1]>> ELSE <<>>)
             \o Filter(Tail(items), Tail(keep))

\* faulty variant: a failed request is taken for a response without results
LaneSwallowsFailure(lane, j) == [lane EXCEPT !.st = "resolved"]

\* await this.client.search(...) of a failed request throws inside the
\* closure: the closure's promise is rejected.
LaneRejected(lane, j) == [lane EXCEPT !.st = "rejected", !.err = RequestError(j)]

\* The closure after its await of client.search:
\* filterResults(...).buildResults() of the category's class.  keep[i] is the
\* predicate's value on result i.
LaneAfterResponse(lane, j, searchType, resp, keep) ==
    IF ~resp.ok THEN LaneRejected(lane, j)
    ELSE LET kept == Filter(resp.items, keep) IN
         IF searchType = "Post"
         THEN LET started == StartBuild(lane, kept) IN
              [started EXCEPT !.raw = resp.items,
                              !.st = IF PromiseAllResolved(started.values)
                                     THEN "resolved" ELSE "enrich"]
         ELSE LET mapped == [i \in 1..Len(kept) |->
                               IF searchType = "Group" THEN buildGroup(kept[i], Undefined)
                               ELSE buildUser(kept[i])]
              IN  [lane EXCEPT !.st = "resolved", !.raw = resp.items,
                               !.built = mapped, !.values = mapped]

\* faulty variant: the results of whichever category has resolved are pushed next
AnyResolvedLane(lanes, merged) ==
    IF \E j \in 1..Len(lanes) : lanes[j].st = "resolved"
    THEN CHOOSE j \in 1..Len(lanes) :
             /\ lanes[j].st = "resolved"
             /\ \A m \in (j + 1)..Len(lanes) : lanes[m].st # "resolved"
    ELSE merged + 1

\* for (const result of filters.map(search)) results.push(...await result):
\* the promise the loop awaits after `merged` of them
AwaitedLane(lanes, merged) == merged + 1

\* The loop runs on for as long as the promise it awaits has settled.
RECURSIVE MergeLoop(_)
MergeLoop(call) ==
    IF call.merged = Len(call.lanes) THEN Returned(call, PlainList(call.results))
    ELSE LET j == AwaitedLane(call.lanes, call.merged) IN
         IF call.lanes[j].st = "resolved"
         THEN MergeLoop([call EXCEPT !.results = @ \o call.lanes[j].values,
                                     !.merged = @ + 1,
                                     !.lanes[j].st = "merged"])
         ELSE IF call.lanes[j].st = "rejected" THEN Thrown(call, call.lanes[j].err)
         ELSE call

SearchRequest(searchType, communityName, listingType, f) ==
    [host |-> client', kind |-> "search", type |-> searchTypeName(searchType),
     community_name |-> communityName, listing_type |-> listingType,
     q |-> f.q, limit |-> f.limit, page |-> f.page, sort |-> f.sort]

\* faulty variant: the deployment is not looked at
SearchNeverDeclines == FALSE

\* if(this.defaultInstance == kbin || ...) return new Unimplemented()
SearchDeclines == defaultInstance = kbin

InvokeAutocomplete(c, limit, query, searchType) ==
    /\ calls[c].pc = "idle"
    /\ LET sc == SetClient(query, NoIds, Undefined)
           filters == processAutocompleteFilters(limit, sc.inputInfo.primaryInput, searchType)
           call == [calls[c] EXCEPT !.op = "autocomplete", !.args.limit = limit,
                                    !.args.query = query, !.args.searchType = searchType]
       IN  IF SearchDeclines
           THEN /\ calls' = [calls EXCEPT ![c] = Returned(call, Unimplemented)]
                /\ UNCHANGED <<client, inputInfo>>
           ELSE /\ RunSetClient(sc)
                /\ calls' = [calls EXCEPT ![c] =
                     IF ~sc.ok THEN Returned(call, Unimplemented)
                     ELSE MergeLoop([call EXCEPT
                            !.pc = "await",
                            !.reqs = [j \in 1..Len(filters) |->
                                        SearchRequest(filters[j].searchType, Undefined,
                                            IF Truthy(sc.inputInfo.instance)
                                            THEN "Local" ELSE "All",
                                            [filters[j].filters EXCEPT
                                                !.sort = <<"T","o","p","A","l","l">>])],
                            !.lanes = [j \in 1..Len(filters) |-> NewLane]])]
    /\ UNCHANGED defaultInstance

InvokeSearch(c, group, query, exact, limit, page, sort, secondarySort, searchType, searchInGroup) ==
    /\ calls[c].pc = "idle"
    /\ LET sc == SetClient(query, NoIds, group)
           filters == processSearchFilters(limit, page, sort, secondarySort, exact,
                                           sc.inputInfo.primaryInput, searchType)
           call == [calls[c] EXCEPT !.op = "search", !.args.limit = limit,
                                    !.args.group = group, !.args.exact = exact,
                                    !.args.page = page, !.args.sort = sort,
                                    !.args.secondarySort = secondarySort,
                                    !.args.searchInGroup = searchInGroup,
                                    !.args.query = query, !.args.searchType = searchType]
       IN  IF SearchDeclines
           THEN /\ calls' = [calls EXCEPT ![c] = Returned(call, Unimplemented)]
                /\ UNCHANGED <<client, inputInfo>>
           ELSE /\ RunSetClient(sc)
                /\ calls' = [calls EXCEPT ![c] =
                     IF ~sc.ok THEN Returned(call, Unimplemented)
                     ELSE MergeLoop([call EXCEPT
                            !.pc = "await",
                            !.reqs = [j \in 1..Len(filters) |->
                                        SearchRequest(filters[j].searchType,
                                            IF searchInGroup THEN group ELSE Undefined,
                                            Undefined, filters[j].filters)],
                            !.lanes = [j \in 1..Len(filters) |-> NewLane]])]
    /\ UNCHANGED defaultInstance

\* filters.q of the closures: inputInfo.primaryInput as it was at the call
QueryOf(call) == call.reqs[1].q

RespondAutocomplete(c, j, resp) ==
    /\ calls[c].op = "autocomplete"
    /\ calls[c].pc = "await"
    /\ j \in 1..Len(calls[c].lanes)
    /\ calls[c].lanes[j].st = "await"
    /\ LET q == QueryOf(calls[c])
           keep == [i \in 1..Len(resp.items) |-> AutocompleteKeeps(resp.items[i], q)]
           lane == LaneAfterResponse(calls[c].lanes[j], j, calls[c].args.searchType[j],
                                     resp, keep)
       IN  calls' = [calls EXCEPT ![c] =
             MergeLoop(Answered([@ EXCEPT !.lanes[j] = lane], j, resp))]
    /\ UNCHANGED <<defaultInstance, client, inputInfo>>

RespondSearch(c, j, resp) ==
    /\ calls[c].op = "search"
    /\ calls[c].pc = "await"
    /\ j \in 1..Len(calls[c].lanes)
    /\ calls[c].lanes[j].st = "await"
    /\ LET q == QueryOf(calls[c])
           keep == [i \in 1..Len(resp.items) |->
                      SearchKeeps(resp.items[i], q, calls[c].args.exact)]
           lane == LaneAfterResponse(calls[c].lanes[j], j, calls[c].args.searchType[j],
                                     resp, keep)
       IN  calls' = [calls EXCEPT ![c] =
             MergeLoop(Answered([@ EXCEPT !.lanes[j] = lane], j, resp))]
    /\ UNCHANGED <<defaultInstance, client, inputInfo>>

\* buildMetadata of post i of category j settles
\* (PostSearchType.buildResults: Promise.all over buildPost)
EnrichSearchPost(c, j, i, ok) ==
    /\ calls[c].op \in {"search", "autocomplete"}
    /\ calls[c].pc = "await"
    /\ j \in 1..Len(calls[c].lanes)
    /\ calls[c].lanes[j].st = "enrich"
    /\ i \in 1..Len(calls[c].lanes[j].values)
    /\ calls[c].lanes[j].values[i].kind = "pending"
    /\ LET lane == IF ~ok
                   THEN [calls[c].lanes[j] EXCEPT !.st = "rejected",
                                                  !.err = EnrichError(j, i)]
                   ELSE LET stored == Enriched(calls[c].lanes[j], i) IN
                        [stored EXCEPT !.st = IF PromiseAllResolved(stored.values)
                                              THEN "resolved" ELSE "enrich"]
       IN  calls' = [calls EXCEPT ![c] = MergeLoop([@ EXCEPT !.lanes[j] = lane])]
    /\ UNCHANGED <<defaultInstance, client, inputInfo>>

-----------------------------------------------------------------------------
(* getUserDetails *)

InvokeGetUserDetails(c, limit, page, sort, secondarySort, userDetail, username) ==
    /\ calls[c].pc = "idle"
    /\ LET filters == processFilters(limit, page, sort, secondarySort)
           sc == SetClient(username, NoIds, Undefined)
           call == [calls[c] EXCEPT !.op = "getUserDetails", !.args.username = username,
                                    !.args.limit = limit, !.args.page = page,
                                    !.args.sort = sort,
                                    !.args.secondarySort = secondarySort,
                                    !.args.userDetail = userDetail,
                                    !.page = filters.page,
                                    !.primarySort = filters.primarySort]
       IN  /\ RunSetClient(sc)
           /\ calls' = [calls EXCEPT ![c] =
                IF ~sc.ok THEN Returned(call, Unimplemented)
                ELSE [call EXCEPT
                        !.pc = "await",
                        !.reqs = <<Request("getPersonDetails", sc.inputInfo.inputAtInstance,
                                           NaN, filters.page, filters.sort, filters.limit)>>,
                        !.lanes = <<NewLane>>]]
    /\ UNCHANGED defaultInstance

\* After the await of Promise.all over the posts' buildPost (Submitted,
\* Overview): Overview maps the comments now, reading this.inputInfo as it is
\* when the posts have all been built, and sorts posts and comments together.
UserDetailsJoin(call) ==
    IF ~PromiseAllResolved(call.lanes[1].values) THEN call
    ELSE LET posts == call.lanes[1].values
             joined == [call EXCEPT !.lanes[1].st = "resolved"]
         IN  IF call.args.userDetail = "Submitted"
             THEN Returned(joined, PagedList(posts, call.page))
             ELSE Returned(joined,
                    PagedList(SortDetails(
                        posts \o [i \in 1..Len(call.comments) |->
                                    buildComment(call.comments[i], inputInfo)],
                        call.primarySort), call.page))

RespondGetUserDetails(c, resp) ==
    /\ calls[c].op = "getUserDetails"
    /\ calls[c].pc = "await"
    /\ calls' = [calls EXCEPT ![c] =
         LET call == Answered(@, 1, resp) IN
         IF ~resp.ok THEN Thrown(call, RequestError(1))
         ELSE IF call.args.userDetail = "Comments"
         THEN Returned([call EXCEPT !.comments = resp.comments, !.lanes[1].raw = resp.items],
                       PagedList([i \in 1..Len(resp.comments) |->
                                    buildComment(resp.comments[i], inputInfo)], call.page))
         ELSE IF call.args.userDetail \in {"Submitted", "Overview"}
         THEN UserDetailsJoin([call EXCEPT !.pc = "enrich", !.comments = resp.comments,
                                           !.lanes[1] = StartBuild(@, resp.items)])
         ELSE Returned([call EXCEPT !.comments = resp.comments, !.lanes[1].raw = resp.items],
                       Unimplemented)]
    /\ UNCHANGED <<defaultInstance, client, inputInfo>>

EnrichUserDetails(c, i, ok) ==
    /\ calls[c].op = "getUserDetails"
    /\ CanEnrich(calls[c], 1, i)
    /\ calls' = [calls EXCEPT ![c] =
         IF ~ok THEN Thrown(@, EnrichError(1, i))
         ELSE UserDetailsJoin([@ EXCEPT !.lanes[1] = Enriched(@, i)])]
    /\ UNCHANGED <<defaultInstance, client, inputInfo>>

-----------------------------------------------------------------------------
(* getNestedComments *)

\* up to the await inside the getPost it calls
InvokeGetNestedComments(c, ids, limit, depth, sort, group) ==
    /\ calls[c].pc = "idle"
    /\ LET sc == SetClient(group, Ids(ids.postId, Undefined), Undefined)
           call == [calls[c] EXCEPT !.op = "getNestedComments", !.args.ids = ids,
                                    !.args.limit = limit, !.args.depth = depth,
                                    !.args.sort = sort, !.args.group = group]
       IN  /\ RunSetClient(sc)
           /\ calls' = [calls EXCEPT ![c] =
                IF ~sc.ok THEN Returned(call, Unimplemented)
                ELSE [call EXCEPT
                        !.pc = "await",
                        !.reqs = <<Request("getPost", Undefined,
                                           Number(sc.inputInfo.postId), NaN, Undefined, 0)>>,
                        !.lanes = <<NewLane>>]]
    /\ UNCHANGED defaultInstance

\* getPost's response: buildPost up to its await
RespondNestedPost(c, resp) ==
    /\ calls[c].op = "getNestedComments"
    /\ calls[c].pc = "await"
    /\ Len(calls[c].lanes) = 1
    /\ calls' = [calls EXCEPT ![c] =
         LET call == Answered(@, 1, resp) IN
         IF ~resp.ok THEN Thrown(call, RequestError(1))
         ELSE [call EXCEPT !.pc = "enrich", !.lanes[1] = StartBuild(@, resp.items)]]
    /\ UNCHANGED <<defaultInstance, client, inputInfo>>

\* buildMetadata settles: getPost returns the post, and getNestedComments
\* runs setClient again and sends getComments
EnrichNestedPost(c, ok) ==
    /\ calls[c].op = "getNestedComments"
    /\ CanEnrich(calls[c], 1, 1)
    /\ IF ~ok
       THEN /\ calls' = [calls EXCEPT ![c] = Thrown(@, EnrichError(1, 1))]
            /\ UNCHANGED <<client, inputInfo>>
       ELSE LET sc == SetClient(calls[c].args.group, calls[c].args.ids, Undefined)
                filters == processCommentFilters(calls[c].args.limit, calls[c].args.sort)
                post == [calls[c] EXCEPT !.lanes[1] =
                           [Enriched(@, 1) EXCEPT !.st = "resolved"]]
            IN  /\ RunSetClient(sc)
                /\ calls' = [calls EXCEPT ![c] =
                     IF ~sc.ok THEN Returned(post, Unimplemented)
                     ELSE [post EXCEPT
                             !.pc = "await",
                             !.reqs = Append(@,
                                 [host |-> client', kind |-> "getComments",
                                  post_id |-> Number(sc.inputInfo.postId),
                                  parent_id |-> IF Truthy(calls[c].args.ids.commentId)
                                                THEN Number(calls[c].args.ids.commentId)
                                                ELSE NaN,
                                  max_depth |-> calls[c].args.depth,
                                  limit |-> filters.limit, sort |-> filters.sort]),
                             !.lanes = Append(@, NewLane)]]
    /\ UNCHANGED defaultInstance

RespondNestedComments(c, resp) ==
    /\ calls[c].op = "getNestedComments"
    /\ calls[c].pc = "await"
    /\ Len(calls[c].lanes) = 2
    /\ calls' = [calls EXCEPT ![c] =
         LET call == Answered(@, 2, resp) IN
         IF ~resp.ok THEN Thrown(call, RequestError(2))
         ELSE Returned([call EXCEPT !.lanes[2].st = "resolved", !.lanes[2].raw = resp.items,
                                 !.comments = resp.items],
                       NestedResult(call.lanes[1].values[1],
                                    nestComments(call.args.ids, resp.items, inputInfo)))]
    /\ UNCHANGED <<defaultInstance, client, inputInfo>>

-----------------------------------------------------------------------------
(* The service object after construction *)

Init ==
    /\ defaultInstance \in Deployments
    /\ client = Undefined
    /\ inputInfo = NoInfo
    /\ calls = [c \in CallIds |-> IdleCall]

(* Inputs *)

MaxPosts == 2

\* the identifiers a caller passes: a name, with or without an instance
Names == { <<>>, <<"g">>, <<"g", At, "beehaw.org">>, <<At, "beehaw.org">>,
           <<"g", At, "kbin.social">> }

PostIds == { <<"7">>, <<"7", At, "beehaw.org">> }

\* a page of n posts of the community g of beehaw.org, newest (highest id) first
PostsPage(n) ==
    [i \in 1..n |-> PostView(n + 1 - i, <<"t", Digits[n + 2 - i]>>, <<"g">>, beehaw)]

PostsResponses == {Failure} \cup {Response(PostsPage(n)) : n \in 0..MaxPosts}

\* the post with id 7 of the community g of beehaw.org
PostResponses == {Failure, Response(<<PostView(7, <<"t", "7">>, <<"g">>, beehaw)>>)}
GroupResponses == {Failure, Response(<<CommunityView(1, <<"g">>, beehaw)>>)}
UserResponses == {Failure, Response(<<PersonView(1, <<"g">>, beehaw)>>)}

Next ==
    \E c \in CallIds :
        \/ \E group \in Names : InvokeGetGroup(c, group)
        \/ \E resp \in GroupResponses : RespondGetGroup(c, resp)
        \/ \E username \in Names : InvokeGetUser(c, username)
        \/ \E resp \in UserResponses : RespondGetUser(c, resp)
        \/ \E id \in PostIds, group \in Names : InvokeGetPost(c, id, group)
        \/ \E resp \in PostResponses : RespondGetPost(c, resp)
        \/ \E ok \in BOOLEAN : EnrichGetPost(c, ok)
        \/ \E group \in Names : InvokeGetPosts(c, group, 10, Undefined, Undefined, Undefined)
        \/ \E resp \in PostsResponses : RespondGetPosts(c, resp)
        \/ \E i \in 1..MaxPosts, ok \in BOOLEAN : EnrichGetPosts(c, i, ok)

Spec == Init /\ [][Next]_vars

-----------------------------------------------------------------------------
(* One call at a time, every operation (SpecOne) *)

MaxPage == 10
MaxHits == 2
MaxCategories == 2
MaxComments == 3

Pages == {Undefined, <<"x">>} \cup {NatToString(p) : p \in 0..MaxPage}

OneNames == { <<>>, <<"g">>, <<"g", At, "beehaw.org">> }

\* what a caller searches for
SearchQueries == OneNames \cup { <<"g", "o">> }

SearchTypes == {"Group", "User", "Post"}
\* the lists of categories a caller asks for: each category at most once
SearchTypeLists ==
    {list \in UNION {[1..n -> SearchTypes] : n \in 1..MaxCategories} :
        \A i, j \in 1..Len(list) : list[i] = list[j] => i = j}

\* what the upstream finds: the names differ in case and in length
HitName(i) == IF i % 3 = 1 THEN <<"G">> ELSE IF i % 3 = 2 THEN <<"g", "o">> ELSE <<"x">>
Hit(searchType, i) ==
    IF searchType = "Group" THEN CommunityView(i, HitName(i), beehaw)
    ELSE IF searchType = "User" THEN PersonView(i, HitName(i), lemmyWorld)
    ELSE PostView(i, HitName(i), <<"g">>, beehaw)
Hits(searchType, n) == [i \in 1..n |-> Hit(searchType, i)]
SearchResponses(searchType) ==
    {Failure} \cup {Response(Hits(searchType, n)) : n \in 0..MaxHits}

\* a thread of post 7: comment 5, its replies 7 and 9, and further top-level
\* comments 11, 12, ...
ThreadComment(i) ==
    IF i = 1 THEN CommentView(5, <<"0", Dot, "5">>, 7, <<"g">>, beehaw, 3, 5000, 2)
    ELSE IF i = 2
    THEN CommentView(7, <<"0", Dot, "5", Dot, "7">>, 7, <<"g">>, beehaw, 1, 7000, 3)
    ELSE IF i = 3
    THEN CommentView(9, <<"0", Dot, "5", Dot, "9">>, 7, <<"g">>, beehaw, 2, 9000, 1)
    ELSE CommentView(8 + i, <<"0", Dot>> \o NatToString(8 + i), 7, <<"g">>, beehaw,
                     i, (8 + i) * 1000, i)
CommentsPage(n) == [i \in 1..n |-> ThreadComment(i)]

CommentsResponses == {Failure} \cup {Response(CommentsPage(n)) : n \in 0..MaxComments}

DetailsResponses ==
    {Failure} \cup {DetailsResponse(PostsPage(n), CommentsPage(m)) :
                      n \in 0..MaxPosts, m \in 0..MaxComments}

UserDetails == {"Comments", "Submitted", "Overview", "Gilded"}

Sorts == {Undefined, <<"t", "o", "p">>}

NestedIds == { Ids(<<"7">>, Undefined), Ids(<<"7", At, "beehaw.org">>, <<"5">>),
               Ids(<<"7">>, <<"9">>) }

NextOne ==
    \E c \in {"A"} :
        \/ \E group \in OneNames : InvokeGetGroup(c, group)
        \/ \E resp \in GroupResponses : RespondGetGroup(c, resp)
        \/ \E username \in OneNames : InvokeGetUser(c, username)
        \/ \E resp \in UserResponses : RespondGetUser(c, resp)
        \/ \E id \in PostIds, group \in OneNames : InvokeGetPost(c, id, group)
        \/ \E resp \in PostResponses : RespondGetPost(c, resp)
        \/ \E ok \in BOOLEAN : EnrichGetPost(c, ok)
        \/ \E group \in OneNames, page \in Pages :
               InvokeGetPosts(c, group, 10, page, Undefined, Undefined)
        \/ \E resp \in PostsResponses : RespondGetPosts(c, resp)
        \/ \E i \in 1..MaxPosts, ok \in BOOLEAN : EnrichGetPosts(c, i, ok)
        \/ \E username \in {<<"g">>}, page \in Pages, sort \in Sorts,
              userDetail \in UserDetails :
               InvokeGetUserDetails(c, 10, page, sort, Undefined, userDetail, username)
        \/ \E resp \in DetailsResponses : RespondGetUserDetails(c, resp)
        \/ \E i \in 1..MaxPosts, ok \in BOOLEAN : EnrichUserDetails(c, i, ok)
        \/ \E ids \in NestedIds, group \in OneNames, sort \in Sorts :
               InvokeGetNestedComments(c, ids, 10, 8, sort, group)
        \/ \E resp \in PostResponses : RespondNestedPost(c, resp)
        \/ \E ok \in BOOLEAN : EnrichNestedPost(c, ok)
        \/ \E resp \in CommentsResponses : RespondNestedComments(c, resp)
        \/ \E query \in SearchQueries, searchType \in SearchTypeLists :
               InvokeAutocomplete(c, 10, query, searchType)
        \/ \E j \in 1..Len(calls[c].args.searchType) :
               \E resp \in SearchResponses(calls[c].args.searchType[j]) :
                   RespondAutocomplete(c, j, resp)
        \/ \E query \in SearchQueries, group \in {Undefined, <<"m", At, "lemmy.ml">>},
              searchType \in SearchTypeLists :
               InvokeSearch(c, group, query, group # Undefined, 10, Undefined, Undefined,
                            Undefined, searchType, group # Undefined)
        \/ \E j \in 1..Len(calls[c].args.searchType) :
               \E resp \in SearchResponses(calls[c].args.searchType[j]) :
                   RespondSearch(c, j, resp)
        \/ \E j \in 1..MaxCategories, i \in 1..MaxHits, ok \in BOOLEAN :
               EnrichSearchPost(c, j, i, ok)

SpecOne == Init /\ [][NextOne]_vars

-----------------------------------------------------------------------------
(* Properties of one call (SpecOne) *)

RECURSIVE Concat(_)
Concat(seqs) == IF seqs = <<>> THEN <<>> ELSE Head(seqs) \o Concat(Tail(seqs))

Finished(call) == call.pc \in {"done", "failed"}

\* C3: with kbin.social as default instance, search and autocomplete return
\* the Unsupported result for every input and send nothing upstream.
C3_SearchDeclinedOnKbin ==
    \A c \in CallIds :
        (calls[c].op \in {"search", "autocomplete"} /\ defaultInstance = kbin) =>
            /\ calls[c].pc = "done"
            /\ calls[c].result = Unimplemented
            /\ calls[c].reqs = <<>>
            /\ calls[c].lanes = <<>>

C3_Witness ==
    /\ defaultInstance = kbin
    /\ calls["A"].op = "search"
    /\ calls["A"].args.query = <<"g">>
    /\ calls["A"].result = Unimplemented

\* the page a caller asked for, as a number: 1 when page is absent
AskedPage(page) == IF page = Undefined THEN 1 ELSE DigitsValue(page)
IsPageNumber(page) ==
    page = Undefined \/ (page # <<>> /\ \A i \in 1..Len(page) : IsDigit(page[i]))

\* C7: in every paged list of getPosts and of getUserDetails (Comments,
\* Submitted, Overview), `after` is the string of page+1 if the list has an
\* item and null otherwise, and `before` is the string of page-1 if page > 1
\* and null otherwise; page 1 without results gives null and null, page 3
\* with results gives "2" and "4".
C7_PageCursors ==
    \A c \in CallIds :
        LET call == calls[c]
            page == AskedPage(call.args.page)
            n == Len(call.result.children)
        IN
        /\ (call.op = "getUserDetails" /\ call.pc = "done"
                /\ call.args.userDetail \in {"Comments", "Submitted", "Overview"}) =>
               call.result.type = "list"
        /\ (call.op = "getPosts" /\ call.pc = "done") =>
               (call.result.type = "list" \/ call.result = Unimplemented)
        /\ (call.op \in {"getPosts", "getUserDetails"} /\ call.pc = "done"
                /\ call.result.type = "list" /\ IsPageNumber(call.args.page)) =>
            /\ call.result.after = IF n >= 1 THEN NatToString(page + 1) ELSE Null
            /\ call.result.before = IF page > 1 THEN NatToString(page - 1) ELSE Null
            /\ (call.args.page = <<"1">> /\ n = 0) =>
                   call.result.after = Null /\ call.result.before = Null
            /\ (call.args.page = <<"3">> /\ n >= 1) =>
                   call.result.before = <<"2">> /\ call.result.after = <<"4">>
            /\ (call.args.page = <<"9">> /\ n >= 1) =>
                   call.result.before = <<"8">> /\ call.result.after = <<"1", "0">>
            /\ (call.args.page = <<"1", "0">> /\ n >= 1) =>
                   call.result.before = <<"9">> /\ call.result.after = <<"1", "1">>

C7_Witness ==
    /\ calls["A"].op = "getUserDetails"
    /\ calls["A"].args.userDetail = "Overview"
    /\ calls["A"].args.page = <<"3">>
    /\ calls["A"].pc = "done"
    /\ Len(calls["A"].result.children) >= 2
    /\ calls["A"].result.before = <<"2">>
    /\ calls["A"].result.after = <<"4">>

RecordKind(searchType) ==
    IF searchType = "Group" THEN "group" ELSE IF searchType = "User" THEN "user" ELSE "post"

\* C8: search and autocomplete send exactly one upstream request per
\* category, in the order of the categories, and return the concatenation of
\* the categories' mapped results in that order, whatever the order in which
\* the responses and the posts' buildMetadata calls completed.
C8_CategoryOrder ==
    \A c \in CallIds :
        LET call == calls[c]
            n == Len(call.args.searchType)
        IN  (call.op \in {"search", "autocomplete"} /\ call.pc = "done"
                /\ call.result.type = "list") =>
            /\ Len(call.reqs) = n
            /\ \A j \in 1..n :
                   /\ call.reqs[j].type = searchTypeName(call.args.searchType[j])
                   /\ \A i \in 1..Len(call.lanes[j].values) :
                          call.lanes[j].values[i].kind = RecordKind(call.args.searchType[j])
            /\ call.result.children = Concat([j \in 1..n |-> call.lanes[j].values])
            /\ call.result.dist = Len(call.result.children)

\* two different categories, both with results
C8_Witness ==
    /\ calls["A"].op = "search"
    /\ calls["A"].pc = "done"
    /\ calls["A"].args.searchType = <<"Post", "Group">>
    /\ Len(calls["A"].lanes) = 2
    /\ Len(calls["A"].lanes[1].values) = 2
    /\ Len(calls["A"].lanes[2].values) = 2

\* the requests an operation sends when none fails
NominalRequests(call) ==
    IF call.op \in {"search", "autocomplete"} THEN Len(call.args.searchType)
    ELSE IF call.op = "getNestedComments" THEN 2
    ELSE 1

FailedRequests(call) == {j \in 1..Len(call.lanes) : call.lanes[j].upstream = "failed"}

\* C9: a call one of whose upstream requests failed ends by failing, with the
\* failure of one of its awaited steps, and returns nothing, not even the
\* results of the categories that succeeded; no request is sent twice.
C9_FailurePropagates ==
    \A c \in CallIds :
        LET call == calls[c] IN
        /\ Len(call.reqs) = Len(call.lanes)
        /\ Len(call.reqs) <= NominalRequests(call)
        /\ call.pc = "done" => FailedRequests(call) = {} /\ call.error = NoError
        /\ call.pc = "failed" =>
               /\ call.result = NoResult
               /\ call.error.lane \in 1..Len(call.lanes)
               /\ call.lanes[call.error.lane].err = call.error
               /\ call.error.at = "request" => call.error.lane \in FailedRequests(call)
        /\ (Finished(call) /\ FailedRequests(call) # {}) => call.pc = "failed"
        /\ \A j \in 1..Len(call.lanes) :
               (/\ Finished(call)
                /\ FailedRequests(call) = {j}
                /\ \A k \in 1..Len(call.lanes) : call.lanes[k].err.at # "buildMetadata") =>
                   call.error = RequestError(j)

\* the first category has given its results and the second one's request failed
C9_Witness ==
    /\ calls["A"].op = "search"
    /\ calls["A"].pc = "failed"
    /\ Len(calls["A"].lanes) = 2
    /\ calls["A"].lanes[1].upstream = "ok"
    /\ Len(calls["A"].results) >= 1
    /\ calls["A"].error = RequestError(2)
    /\ calls["A"].result = NoResult

-----------------------------------------------------------------------------
(* Properties of overlapping calls (Spec) *)

\* the part of an identifier before its first "@"
NamePart(s) == Elem(Split(IF s = Undefined THEN <<>> ELSE s), 1)
IsQualified(s) == s # Undefined /\ \E i \in 1..Len(s) : s[i] = At

\* The instance a call's own setClient resolves from the call's arguments.
OwnInstance(call) ==
    IF call.op = "getPost"
    THEN SetClient(call.args.group, Ids(call.args.id, Undefined), Undefined).inputInfo.instance
    ELSE SetClient(call.args.group, NoIds, Undefined).inputInfo.instance

\* C1 (as claimed): every post record a call returns carries the upstream id
\* qualified with the instance that call itself resolved, whatever other call
\* ran on the service object while it was suspended.
C1_OwnContext ==
    \A c \in CallIds :
        LET call == calls[c] IN
        (call.op \in {"getPosts", "getPost"} /\ call.pc = "done"
            /\ call.result.type \in {"list", "record"}) =>
        \A i \in 1..Len(call.result.children) :
            call.result.children[i].id =
                inputAtNonDefaultInstance(NumberToString(Num(call.lanes[1].raw[i].id)),
                                          OwnInstance(call))

\* C2 (as claimed): getGroup and getUser given an empty name return the
\* Unsupported result and send nothing upstream.
C2_EmptyNameDeclined ==
    \A c \in CallIds :
        LET call == calls[c]
            name == IF call.op = "getGroup" THEN call.args.group ELSE call.args.username
        IN  (call.op \in {"getGroup", "getUser"} /\ ~Truthy(NamePart(name))) =>
                /\ call.reqs = <<>>
                /\ call.pc = "done"
                /\ call.result.type = "Unimplemented"

\* C4 (as claimed): with kbin.social as default instance, getPosts declines
\* every group input that has no @host part, empty or not.
C4_UnqualifiedDeclined ==
    \A c \in CallIds :
        LET call == calls[c] IN
        (call.op = "getPosts" /\ defaultInstance = kbin /\ ~IsQualified(call.args.group)) =>
            /\ call.pc = "done"
            /\ call.result.type = "Unimplemented"

\* C4 (amended): with kbin.social as default instance, getPosts declines,
\* without an upstream request, exactly the group inputs whose name part is
\* empty; a non-empty name without @host part goes upstream as name@kbin.social.
C4_EmptyNameDeclinedOnKbin ==
    \A c \in CallIds :
        LET call == calls[c] IN
        (call.op = "getPosts" /\ defaultInstance = kbin) =>
            IF Truthy(NamePart(call.args.group))
            THEN /\ Len(call.reqs) = 1
                 /\ call.result.type # "Unimplemented"
                 /\ (~IsQualified(call.args.group) =>
                        call.reqs[1].name = call.args.group \o <<At>> \o kbin)
            ELSE /\ call.reqs = <<>>
                 /\ call.pc = "done"
                 /\ call.result.type = "Unimplemented"

C4_Witness ==
    \E c \in CallIds :
        /\ calls[c].op = "getPosts"
        /\ defaultInstance = kbin
        /\ calls[c].args.group = <<>>
        /\ calls[c].pc = "done"
        /\ calls[c].result.type = "Unimplemented"

\* C6 (as claimed): the connection is never opened to kbin.social itself.
C6_NeverConnectsToKbin == client # <<"https://">> \o kbin

\* C10: the list getPosts returns holds one finished record per post of the
\* upstream response, in the order of the response, whatever the order in
\* which the buildMetadata calls of the posts completed.
C10_UpstreamOrder ==
    \A c \in CallIds :
        LET call == calls[c] IN
        (call.op = "getPosts" /\ call.pc = "done" /\ call.result.type = "list") =>
            /\ Len(call.result.children) = Len(call.lanes[1].raw)
            /\ call.result.dist = Len(call.lanes[1].raw)
            /\ \A i \in 1..Len(call.result.children) :
                   /\ call.result.children[i].kind = "post"
                   /\ call.result.children[i].title = call.lanes[1].raw[i].name
                   /\ call.lanes[1].values[i].kind # "pending"

C10_Witness ==
    \E c \in CallIds :
        /\ calls[c].op = "getPosts"
        /\ calls[c].pc = "done"
        /\ Len(calls[c].result.children) >= 2

(* Properties of the search filters (SpecOne) *)

\* the record a raw result of a category is mapped to
Mapped(searchType, view) ==
    IF searchType = "Post" THEN buildPost(view, inputInfo)
    ELSE IF searchType = "Group" THEN buildGroup(view, Undefined)
    ELSE buildUser(view)

\* the mode's test of a raw name against the query, both in lower case
NameMatches(call, name) ==
    LET q == ToLowerCase(NamePart(call.args.query))
        lower == ToLowerCase(name)
    IN  IF call.op = "autocomplete"
        THEN Len(q) <= Len(lower) /\ \A i \in 1..Len(q) : lower[i] = q[i]
        ELSE IF call.args.exact THEN lower = q
        ELSE TRUE

RECURSIVE MappedMatches(_, _, _)
MappedMatches(call, searchType, views) ==
    IF views = <<>> THEN <<>>
    ELSE (IF NameMatches(call, Head(views).name)
          THEN <<Mapped(searchType, Head(views))>> ELSE <<>>)
         \o MappedMatches(call, searchType, Tail(views))

\* C20: the records of a category are the mappings of exactly those upstream
\* results whose raw name, compared without regard to case, starts with the
\* query (autocomplete), equals the query (exact search), or of all of them
\* (search that is not exact).
C20_FilteredBeforeMapping ==
    \A c \in CallIds :
        LET call == calls[c] IN
        (call.op \in {"search", "autocomplete"} /\ call.pc = "done"
            /\ call.result.type = "list") =>
            \A j \in 1..Len(call.lanes) :
                call.lanes[j].values =
                    MappedMatches(call, call.args.searchType[j], call.lanes[j].raw)

\* exact search for g among the groups G and go: G alone is returned
C20_Witness ==
    /\ calls["A"].op = "search"
    /\ calls["A"].pc = "done"
    /\ calls["A"].args.exact
    /\ calls["A"].args.query = <<"g">>
    /\ calls["A"].args.searchType = <<"Group">>
    /\ Len(calls["A"].lanes) = 1
    /\ Len(calls["A"].lanes[1].raw) = 2
    /\ Len(calls["A"].result.children) = 1
    /\ calls["A"].result.children[1].title = <<"G">>

-----------------------------------------------------------------------------
(* setClient called on its own (SpecResolve) *)

\* setClient is a public method of the service object; it runs to completion
\* and may be called again.
CallSetClient(c, input, ids, group) ==
    /\ calls[c].pc \in {"idle", "done"}
    /\ calls[c].op \in {"none", "setClient"}
    /\ LET sc == SetClient(input, ids, group)
       IN  /\ RunSetClient(sc)
           /\ calls' = [calls EXCEPT ![c] =
                [IdleCall EXCEPT !.op = "setClient", !.pc = "done",
                                 !.args.input = input, !.args.ids = ids,
                                 !.args.group = group]]
    /\ UNCHANGED defaultInstance

ResolveInputs == Names \cup {Undefined}
ResolveIds == { NoIds, Ids(<<"7">>, Undefined),
                Ids(<<"7", At, "programming.dev">>, Undefined),
                Ids(<<At, "programming.dev">>, Undefined) }
ResolveGroups == { Undefined, <<"m">>, <<"m", At, "lemmy.ml">>, <<"m", At, "kbin.social">> }

NextResolve ==
    \E input \in ResolveInputs, ids \in ResolveIds, group \in ResolveGroups :
        CallSetClient("A", input, ids, group)

SpecResolve == Init /\ [][NextResolve]_vars

\* the instance an identifier carries after its "@", if any
InstancePart(s) == IF s = Undefined THEN Undefined ELSE Elem(Split(s), 2)
HasInstance(s) == Truthy(InstancePart(s))

\* What the service object must hold after setClient chose the host `host`
\* (Undefined: none of the hints carries one) for the arguments `args`.
Addresses(args, host) ==
    LET hostOrDefault == IF Truthy(host) THEN host ELSE defaultInstance IN
    /\ inputInfo.instance = host
    /\ hostOrDefault # kbin => client = <<"https://">> \o hostOrDefault
    /\ Truthy(NamePart(args.input)) =>
           inputInfo.inputAtInstance = NamePart(args.input) \o <<At>> \o hostOrDefault

\* C5 (as claimed): post-id instance if it has one, else group-name instance
\* if it has one, else input instance if it has one, else the default.
C5_StrictPriority ==
    LET args == calls["A"].args
        postId == IF args.ids.some THEN args.ids.postId ELSE Undefined
    IN  calls["A"].op = "setClient" =>
            Addresses(args,
                IF HasInstance(postId) /\ Truthy(NamePart(postId)) THEN InstancePart(postId)
                ELSE IF HasInstance(args.group) THEN InstancePart(args.group)
                ELSE IF HasInstance(args.input) THEN InstancePart(args.input)
                ELSE Undefined)

\* C5 (amended): when the post-id hint has a non-empty id, the host is the
\* instance that id carries, or the default instance if it carries none, and
\* the group-name and input instances are not consulted; without a post id
\* the host is the group-name instance if it has one, else the input
\* instance if it has one, else the default instance.
C5_PostIdDecides ==
    LET args == calls["A"].args
        postId == IF args.ids.some THEN args.ids.postId ELSE Undefined
    IN  calls["A"].op = "setClient" =>
            Addresses(args,
                IF Truthy(NamePart(postId))
                THEN (IF HasInstance(postId) THEN InstancePart(postId) ELSE Undefined)
                ELSE IF HasInstance(args.group) THEN InstancePart(args.group)
                ELSE IF HasInstance(args.input) THEN InstancePart(args.input)
                ELSE Undefined)

\* a post id without instance, beside a group hint and an input that carry one
C5_Witness ==
    /\ calls["A"].op = "setClient"
    /\ calls["A"].args.ids = Ids(<<"7">>, Undefined)
    /\ HasInstance(calls["A"].args.group)
    /\ HasInstance(calls["A"].args.input)
    /\ client = <<"https://">> \o lemmyWorld

-----------------------------------------------------------------------------
(* nestComments on the comments of a thread (SpecNest) *)

MaxThread == 3

\* the ids of the comments of the thread of post 7: 5, 7, 9, ...
ThreadId(i) == 2 * i + 3

\* The threads: comment i replies to comment parent[i], an older comment of
\* the thread, or to the post (0).
Threads == {parent \in [1..MaxThread -> 0..(MaxThread - 1)] :
              \A i \in 1..MaxThread : parent[i] < i}

\* comment.path: "0", then the ids of the comment's ancestors, then its own
RECURSIVE ThreadPath(_, _)
ThreadPath(parent, i) ==
    (IF parent[i] = 0 THEN <<"0">> ELSE ThreadPath(parent, parent[i]))
        \o <<Dot>> \o NatToString(ThreadId(i))

\* What getComments returns of a thread: some of its comments, each once, in
\* the order of the sort asked for.
Fetched == {picked \in UNION {[1..n -> 1..MaxThread] : n \in 0..MaxThread} :
              \A i, j \in 1..Len(picked) : picked[i] = picked[j] => i = j}

FlatComments(parent, picked) ==
    [k \in 1..Len(picked) |->
        CommentView(ThreadId(picked[k]), ThreadPath(parent, picked[k]), 7, <<"g">>,
                    beehaw, picked[k], ThreadId(picked[k]) * 1000, picked[k])]

\* ids.commentId: absent, a comment of the thread, or a comment of no thread
FocusedIds == {Undefined, <<"4">>} \cup {NatToString(ThreadId(i)) : i \in 1..MaxThread}

\* nestComments is a public arrow function of the service object; it runs to
\* completion and keeps nothing from one call to the next.
CallNestComments(c, ids, flatComments) ==
    /\ calls[c].pc = "idle"
    /\ calls' = [calls EXCEPT ![c] =
         [IdleCall EXCEPT !.op = "nestComments", !.pc = "done", !.args.ids = ids,
                          !.comments = flatComments,
                          !.result = [NoResult EXCEPT
                                        !.type = "comments",
                                        !.comments = nestComments(ids, flatComments,
                                                                  inputInfo)]]]
    /\ UNCHANGED <<defaultInstance, client, inputInfo>>

\* the arguments of nestComments
NestIds == {Ids(<<"7">>, commentId) : commentId \in FocusedIds}
FlatLists == {FlatComments(parent, picked) : parent \in Threads, picked \in Fetched}

NextNest ==
    \E ids \in NestIds, flatComments \in FlatLists :
        CallNestComments("A", ids, flatComments)

SpecNest == Init /\ [][NextNest]_vars

(* Properties of the comment tree (SpecNest) *)

\* the parent id a comment's path names: its last segment but one
PathParent(commentView) ==
    LET segments == SplitOn(commentView.path, Dot)
    IN  DigitsValue(segments[Len(segments) - 1])

IdString(commentView) == NatToString(commentView.id)

\* the key of the root: the parent of the focused comment if it was fetched,
\* else 0, the post
ExpectedRoot(ids, flatComments) ==
    IF \E n \in 1..Len(flatComments) : IdString(flatComments[n]) = ids.commentId
    THEN PathParent(flatComments[CHOOSE n \in 1..Len(flatComments) :
                                    IdString(flatComments[n]) = ids.commentId])
    ELSE 0

\* the ids of the flat comments with parent `key`, in the order of the list
RECURSIVE ChildrenOf(_, _)
ChildrenOf(flatComments, key) ==
    IF flatComments = <<>> THEN <<>>
    ELSE (IF PathParent(Head(flatComments)) = key
          THEN <<IdString(Head(flatComments))>> ELSE <<>>)
         \o ChildrenOf(Tail(flatComments), key)

NodeIds(nodes) == [k \in 1..Len(nodes) |-> nodes[k].id]

Nested(call) == call.op = "nestComments" /\ call.pc = "done"

\* C11: the top level of the tree is exactly the flat comments whose parent
\* id is the root key, in upstream order; the root key is the focused
\* comment's parent id if the focused comment is among the flat comments, and
\* the post's key otherwise; no comment under the root key gives the empty tree.
C11_TopLevelIsRootBucket ==
    \A c \in CallIds :
        Nested(calls[c]) =>
            NodeIds(calls[c].result.comments) =
                ChildrenOf(calls[c].comments,
                           ExpectedRoot(calls[c].args.ids, calls[c].comments))

\* the focused comment 9 replies to 5: the top level is 5's replies, 9 then 7
C11_Witness ==
    /\ Nested(calls["A"])
    /\ calls["A"].args.ids.commentId = <<"9">>
    /\ Len(calls["A"].comments) = 3
    /\ NodeIds(calls["A"].result.comments) = << <<"9">>, <<"7">> >>

\* a comment whose parent is neither the post nor a fetched comment
Orphan(flatComments, n) ==
    /\ PathParent(flatComments[n]) # 0
    /\ \A m \in 1..Len(flatComments) : flatComments[m].id # PathParent(flatComments[n])

InSeq(x, seq) == \E k \in 1..Len(seq) : seq[k] = x

\* C12: without a focused comment, a comment whose parent id is the id of no
\* fetched comment is at the top level of the tree.
C12_OrphanAtTopLevel ==
    \A c \in CallIds :
        (Nested(calls[c]) /\ calls[c].args.ids.commentId = Undefined) =>
            \A n \in 1..Len(calls[c].comments) :
                Orphan(calls[c].comments, n) =>
                    InSeq(IdString(calls[c].comments[n]), NodeIds(calls[c].result.comments))

HasReplies(node) == "replies" \in DOMAIN node

\* the nodes of a tree, parents before their replies
RECURSIVE TreeNodes(_)
TreeNodes(nodes) ==
    IF nodes = <<>> THEN <<>>
    ELSE <<Head(nodes)>>
         \o (IF HasReplies(Head(nodes)) THEN TreeNodes(Head(nodes).replies) ELSE <<>>)
         \o TreeNodes(Tail(nodes))

Occurrences(x, seq) == Cardinality({k \in 1..Len(seq) : seq[k] = x})

\* the chain of parents of comment n, through fetched comments, reaches `key`
RECURSIVE Descends(_, _, _, _)
Descends(flatComments, n, key, fuel) ==
    \/ PathParent(flatComments[n]) = key
    \/ /\ fuel > 0
       /\ \E m \in 1..Len(flatComments) :
              /\ flatComments[m].id = PathParent(flatComments[n])
              /\ Descends(flatComments, m, key, fuel - 1)

\* C13: with distinct comment ids, a flat comment is in the tree exactly once
\* if its chain of fetched parents reaches the root key and not at all
\* otherwise, and the tree holds nothing else.
C13_SizePreserving ==
    \A c \in CallIds :
        Nested(calls[c]) =>
            LET flatComments == calls[c].comments
                root == ExpectedRoot(calls[c].args.ids, flatComments)
                inTree == NodeIds(TreeNodes(calls[c].result.comments))
                kept == {n \in 1..Len(flatComments) :
                           Descends(flatComments, n, root, Len(flatComments))}
            IN  /\ \A n \in 1..Len(flatComments) :
                       Occurrences(IdString(flatComments[n]), inTree)
                           = IF n \in kept THEN 1 ELSE 0
                /\ Len(inTree) = Cardinality(kept)

\* a reply to a reply is kept and a comment outside the root's subtree is not
C13_Witness ==
    /\ Nested(calls["A"])
    /\ calls["A"].args.ids.commentId = <<"7">>
    /\ Len(calls["A"].comments) = 3
    /\ NodeIds(TreeNodes(calls["A"].result.comments)) = << <<"7">>, <<"9">> >>

\* C14: a node anywhere in the tree has a replies slot iff some flat comment
\* has the node's id as parent id, and the slot lists exactly those comments
\* in upstream order; comments 5 (0.5), 7 (0.5.7), 9 (0.5.9) without a focused
\* comment give the one root 5 with the replies 7 then 9, which have no slot.
C14_RepliesSlot ==
    \A c \in CallIds :
        Nested(calls[c]) =>
            LET flatComments == calls[c].comments
                tree == calls[c].result.comments
                nodes == TreeNodes(tree)
            IN  /\ \A k \in 1..Len(nodes) :
                       LET replies == ChildrenOf(flatComments, DigitsValue(nodes[k].id))
                       IN  /\ HasReplies(nodes[k]) <=> replies # <<>>
                           /\ HasReplies(nodes[k]) => NodeIds(nodes[k].replies) = replies
                /\ (/\ calls[c].args.ids.commentId = Undefined
                    /\ Len(flatComments) = 3
                    /\ [n \in 1..3 |-> flatComments[n].id] = <<5, 7, 9>>
                    /\ [n \in 1..3 |-> flatComments[n].path] =
                          << <<"0", Dot, "5">>, <<"0", Dot, "5", Dot, "7">>,
                             <<"0", Dot, "5", Dot, "9">> >>) =>
                       /\ NodeIds(tree) = << <<"5">> >>
                       /\ NodeIds(tree[1].replies) = << <<"7">>, <<"9">> >>
                       /\ ~HasReplies(tree[1].replies[1])
                       /\ ~HasReplies(tree[1].replies[2])

C14_Witness ==
    /\ Nested(calls["A"])
    /\ calls["A"].args.ids.commentId = Undefined
    /\ Len(calls["A"].result.comments) = 1
    /\ HasReplies(calls["A"].result.comments[1])
    /\ NodeIds(calls["A"].result.comments[1].replies) = << <<"7">>, <<"9">> >>
    /\ ~HasReplies(calls["A"].result.comments[1].replies[1])

\* the number of segments of a path: one more than its dots
SegmentCount(path) == Cardinality({i \in 1..Len(path) : path[i] = Dot}) + 1

\* the flat comment a node of the tree was mapped from
ViewOf(flatComments, node) ==
    flatComments[CHOOSE n \in 1..Len(flatComments) : IdString(flatComments[n]) = node.id]

\* the parent a mapped comment names: the comment of that id, or the post
\* when the parent id is 0
NamedParent(node, parent) ==
    IF parent = 0 THEN node.link_id ELSE <<"t1_">> \o NatToString(parent)

\* C21: every comment of the tree has depth (number of path segments - 2) and
\* names as parent the last segment but one of its path (path 0.5.7: depth 1,
\* parent 5; path 0.5: depth 0, parent 0, the post); the builder of the tree
\* agrees with the mapper: a reply names its container as parent, and the top
\* level names the root key.
C21_DepthAndParent ==
    \A c \in CallIds :
        Nested(calls[c]) =>
            LET flatComments == calls[c].comments
                tree == calls[c].result.comments
                nodes == TreeNodes(tree)
                root == ExpectedRoot(calls[c].args.ids, flatComments)
            IN  /\ \A k \in 1..Len(nodes) :
                       LET commentView == ViewOf(flatComments, nodes[k])
                       IN  /\ nodes[k].depth = SegmentCount(commentView.path) - 2
                           /\ nodes[k].parent_id
                                 = NamedParent(nodes[k], PathParent(commentView))
                           /\ commentView.path = <<"0", Dot, "5", Dot, "7">> =>
                                 /\ nodes[k].depth = 1
                                 /\ nodes[k].parent_id = <<"t1_", "5">>
                           /\ commentView.path = <<"0", Dot, "5">> =>
                                 /\ nodes[k].depth = 0
                                 /\ nodes[k].parent_id = nodes[k].link_id
                           /\ HasReplies(nodes[k]) =>
                                 \A r \in 1..Len(nodes[k].replies) :
                                     nodes[k].replies[r].parent_id
                                         = <<"t1_">> \o nodes[k].id
                /\ \A k \in 1..Len(tree) : tree[k].parent_id = NamedParent(tree[k], root)

\* the chain 5, 7 (0.5.7), 9 (0.5.7.9): depths 0, 1, 2, each under its parent
C21_Witness ==
    /\ Nested(calls["A"])
    /\ calls["A"].args.ids.commentId = Undefined
    /\ Len(calls["A"].result.comments) = 1
    /\ LET nodes == TreeNodes(calls["A"].result.comments)
       IN  /\ Len(nodes) = 3
           /\ [k \in 1..3 |-> nodes[k].depth] = <<0, 1, 2>>
           /\ [k \in 1..3 |-> nodes[k].parent_id]
                 = <<nodes[1].link_id, <<"t1_", "5">>, <<"t1_", "7">> >>
           /\ HasReplies(nodes[2])

-----------------------------------------------------------------------------
(* getUserDetails with the sorts a caller may give (SpecOverview) *)

\* sort: absent, empty, the four rules of Overview in lower and upper case, a
\* token of the sort vocabulary that is no rule of Overview, and a token of
\* no vocabulary
OverviewSorts ==
    { Undefined, <<>>, <<"n", "e", "w">>, <<"o", "l", "d">>, <<"t", "o", "p">>,
      <<"h", "o", "t">>, <<"T", "O", "P">>, <<"a", "c", "t", "i", "v", "e">>,
      <<"b", "o", "g", "u", "s">> }
SecondarySorts == { Undefined, <<"m", "o", "n", "t", "h">> }

NextOverview ==
    \/ \E sort \in OverviewSorts, secondarySort \in SecondarySorts,
          userDetail \in {"Overview", "Submitted"} :
           InvokeGetUserDetails("A", 10, Undefined, sort, secondarySort, userDetail,
                                <<"g">>)
    \/ \E resp \in DetailsResponses : RespondGetUserDetails("A", resp)
    \/ \E i \in 1..MaxPosts, ok \in BOOLEAN : EnrichUserDetails("A", i, ok)

SpecOverview == Init /\ [][NextOverview]_vars

(* Properties of Overview (SpecOverview) *)

Overview(call) ==
    call.op = "getUserDetails" /\ call.pc = "done" /\ call.args.userDetail = "Overview"

\* the sort token as the vocabularies spell it
Spelled(sort) == capitalizeFirstLetter(ToLowerCase(sort))

Recognized(sort) ==
    /\ Truthy(sort)
    /\ Spelled(sort) \in sortTypes \cup commentSortTypes

NewestFirst(children) ==
    \A i, j \in 1..Len(children) :
        i < j => children[i].created_utc >= children[j].created_utc

\* C15: Overview orders posts and comments by descending creation time
\* whenever the sort is absent or is no recognized token.
C15_DefaultsToNew ==
    \A c \in CallIds :
        (Overview(calls[c]) /\ ~Recognized(calls[c].args.sort)) =>
            NewestFirst(calls[c].result.children)

\* the rule Overview sorts by for a sort token that names one
RuleOf(sort) ==
    IF Spelled(sort) = <<"N", "e", "w">> THEN "New"
    ELSE IF Spelled(sort) = <<"O", "l", "d">> THEN "Old"
    ELSE IF Spelled(sort) = <<"T", "o", "p">> THEN "Top"
    ELSE IF Spelled(sort) = <<"H", "o", "t">> THEN "Hot"
    ELSE "none"

InOrder(rule, left, right) ==
    IF rule = "New" THEN left.created_utc >= right.created_utc
    ELSE IF rule = "Old" THEN left.created_utc <= right.created_utc
    ELSE IF rule = "Top" THEN left.score >= right.score
    ELSE left.hot_rank >= right.hot_rank

\* kind and id of the records of a list, and of the views of a response
Keys(items) == [k \in 1..Len(items) |-> <<items[k].kind, items[k].id>>]
ViewKeys(views) ==
    [k \in 1..Len(views) |-> <<views[k].kind, NatToString(views[k].id)>>]

IsPermutation(left, right) ==
    /\ Len(left) = Len(right)
    /\ \A k \in 1..Len(left) : Occurrences(left[k], left) = Occurrences(left[k], right)

\* C16: the list of Overview is a permutation of the mapped posts and the
\* mapped comments of the response, ordered by the rule the sort names: New
\* by descending creation time, Old by ascending creation time, Top by
\* descending score whatever the kind, Hot by descending hot rank.
C16_OverviewOrder ==
    \A c \in CallIds :
        Overview(calls[c]) =>
            LET call == calls[c]
                children == call.result.children
            IN  /\ call.result.type = "list"
                /\ IsPermutation(Keys(children),
                                 ViewKeys(call.lanes[1].raw) \o ViewKeys(call.comments))
                /\ (Truthy(call.args.sort) /\ RuleOf(call.args.sort) # "none") =>
                       \A i, j \in 1..Len(children) :
                           i < j => InOrder(RuleOf(call.args.sort), children[i], children[j])

\* two posts and one comment, sort=top: comment 5 (score 3), post 2, post 1
C16_Witness ==
    /\ Overview(calls["A"])
    /\ calls["A"].args.sort = <<"t", "o", "p">>
    /\ Len(calls["A"].lanes[1].raw) = 2
    /\ Len(calls["A"].comments) = 1
    /\ Keys(calls["A"].result.children) =
          << <<"comment", <<"5">> >>, <<"post", <<"2">> >>, <<"post", <<"1">> >> >>

-----------------------------------------------------------------------------
(* processFilters on the page and sorts a caller may give (SpecFilters) *)

FilterPages ==
    { Undefined, <<>>, <<"0">>, <<"1">>, <<"3">>, <<"1", "0">>, <<"x">>, <<"2", "x">> }

FilterSorts ==
    { Undefined, <<>>, <<"t", "o", "p">>, <<"T", "O", "P">>, <<"T", "o", "p">>,
      <<"h", "o", "t">>, <<"H", "o", "t">>, <<"n", "e", "w">>, <<"m", "o", "s", "t">>,
      <<"T", "o", "p", "M", "o", "n", "t", "h">>,
      <<"t", "o", "p", "m", "o", "n", "t", "h">>,
      <<"M", "o", "s", "t", "C", "o", "m", "m", "e", "n", "t", "s">>,
      <<"b", "o", "g", "u", "s">> }

FilterSecondarySorts ==
    { Undefined, <<>>, <<"m", "o", "n", "t", "h">>, <<"M", "O", "N", "T", "H">>,
      <<"a", "l", "l">>, <<"c", "o", "m", "m", "e", "n", "t", "s">>,
      <<"b", "o", "g", "u", "s">> }

\* processFilters is a function of its arguments alone.
CallProcessFilters(c, limit, page, sort, secondarySort) ==
    /\ calls[c].pc = "idle"
    /\ calls' = [calls EXCEPT ![c] =
         [IdleCall EXCEPT !.op = "processFilters", !.pc = "done",
                          !.args.limit = limit, !.args.page = page, !.args.sort = sort,
                          !.args.secondarySort = secondarySort,
                          !.results = <<processFilters(limit, page, sort,
                                                       secondarySort)>>]]
    /\ UNCHANGED <<defaultInstance, client, inputInfo>>

NextFilters ==
    \E page \in FilterPages, sort \in FilterSorts, secondarySort \in FilterSecondarySorts :
        CallProcessFilters("A", 10, page, sort, secondarySort)

SpecFilters == Init /\ [][NextFilters]_vars

(* Properties of processFilters (SpecFilters) *)

Filtered(call) == call.op = "processFilters" /\ call.pc = "done"

TopMonth == <<"T", "o", "p", "M", "o", "n", "t", "h">>
MostComments == <<"M", "o", "s", "t", "C", "o", "m", "m", "e", "n", "t", "s">>

\* the first letter of a token in upper case, the others as they are
Capitalized(token) ==
    IF token = <<>> THEN token ELSE <<UpperChar(token[1])>> \o Tail(token)

\* the compound token if the vocabulary has it, else the primary token if
\* the vocabulary has it, else none
Accepted(primary, secondary) ==
    IF primary \o secondary \in sortTypes THEN primary \o secondary
    ELSE IF primary \in sortTypes THEN primary
    ELSE Undefined

C18_UnknownSortDropped ==
    \A c \in CallIds :
        (/\ Filtered(calls[c])
         /\ Truthy(calls[c].args.sort)
         /\ Spelled(calls[c].args.sort) \notin sortTypes \cup commentSortTypes) =>
            /\ calls[c].results[1].sort = Undefined
            /\ calls[c].results[1].primarySort = Undefined

\* C19: the page returned is a number, and it is 1 whenever the page given is
\* absent or not numeric.
C19_PageDefaultsToOne ==
    \A c \in CallIds :
        Filtered(calls[c]) =>
            /\ ~calls[c].results[1].page.nan
            /\ ~IsPageNumber(calls[c].args.page) \/ calls[c].args.page = Undefined =>
                   calls[c].results[1].page = Num(1)

-----------------------------------------------------------------------------
(* estimateSearchLimit on the limits and queries a caller may give
   (SpecEstimate) *)

MaxLimit == 12
MaxQueryLen == 30

\* queries of every length up to MaxQueryLen
EstimateQueries == {[i \in 1..n |-> "g"] : n \in 0..MaxQueryLen}

\* estimateSearchLimit is a function of its arguments alone.
CallEstimateSearchLimit(c, autocompleteLimit, query) ==
    /\ calls[c].pc = "idle"
    /\ calls' = [calls EXCEPT ![c] =
         [IdleCall EXCEPT !.op = "estimateSearchLimit", !.pc = "done",
                          !.args.limit = autocompleteLimit, !.args.query = query,
                          !.results = <<estimateSearchLimit(autocompleteLimit, query)>>]]
    /\ UNCHANGED <<defaultInstance, client, inputInfo>>

NextEstimate ==
    \E autocompleteLimit \in 0..MaxLimit, query \in EstimateQueries :
        CallEstimateSearchLimit("A", autocompleteLimit, query)

SpecEstimate == Init /\ [][NextEstimate]_vars

(* Properties of estimateSearchLimit (SpecEstimate) *)

Estimated(call) == call.op = "estimateSearchLimit" /\ call.pc = "done"

\* r is round(L * (1 + (1 - n/25) * 8)): the integer nearest to
\* L * (225 - 8n) / 25, the upper one of two equally near
IsRounded(r, L, n) ==
    /\ 50 * r - 25 <= 2 * L * (225 - 8 * n)
    /\ 2 * L * (225 - 8 * n) < 50 * r + 25

\* C22: for a limit L >= 0 and a query of length n the estimate is
\* max(L, round(L * (1 + (1 - n/25) * 8))): never below L, L for n >= 25, not
\* larger for a query one character longer, 90 for L = 10 and the empty query
\* and 10 for L = 10 and a query of 25 characters.
C22_EstimateFormula ==
    \A c \in CallIds :
        Estimated(calls[c]) =>
            LET L == calls[c].args.limit
                query == calls[c].args.query
                n == Len(query)
                estimate == calls[c].results[1]
            IN  /\ \E r \in (-2 * L)..(9 * L) :
                       IsRounded(r, L, n) /\ estimate = (IF r > L THEN r ELSE L)
                /\ estimate >= L
                /\ n >= 25 => estimate = L
                /\ estimate >= estimateSearchLimit(L, query \o <<"g">>)
                /\ (L = 10 /\ n = 0) => estimate = 90
                /\ (L = 10 /\ n = 25) => estimate = 10

\* limit 10 and a query of 5 characters: round(10 * 7.4) = 74
C22_Witness ==
    /\ Estimated(calls["A"])
    /\ calls["A"].args.limit = 10
    /\ Len(calls["A"].args.query) = 5
    /\ calls["A"].results[1] = 74

-----------------------------------------------------------------------------
(* inputAtNonDefaultInstance, on its own and after setClient split an
   identifier (SpecQualify) *)

QualifyNames == { <<>>, <<"g">>, <<"G">>, <<"7">>, <<"g", "o">> }
QualifyHosts == { lemmyWorld, kbin, beehaw, <<"lemmy.ml">> }

\* an identifier as a caller writes it: a name, with or without "@" and a host
QualifyInputs ==
    QualifyNames \cup {name \o <<At>> \o host : name \in QualifyNames, host \in QualifyHosts}

\* inputAtNonDefaultInstance is a public arrow function of the service object
\* and reads nothing of it but defaultInstance.
CallInputAtNonDefaultInstance(c, input, instance) ==
    /\ calls[c].pc = "idle"
    /\ calls' = [calls EXCEPT ![c] =
         [IdleCall EXCEPT !.op = "inputAtNonDefaultInstance", !.pc = "done",
                          !.args.input = input, !.args.instance = instance,
                          !.results = <<inputAtNonDefaultInstance(input, instance)>>]]
    /\ UNCHANGED <<defaultInstance, client, inputInfo>>

\* inputAtNonDefaultInstance applied to what setClient split the input into,
\* as buildPost applies it to inputInfo.instance
QualifyInput(c) ==
    /\ calls[c].op = "setClient"
    /\ calls[c].pc = "done"
    /\ calls' = [calls EXCEPT ![c].pc = "qualified",
                              ![c].args.instance = inputInfo.instance,
                              ![c].results =
                                  <<inputAtNonDefaultInstance(inputInfo.primaryInput,
                                                              inputInfo.instance)>>]
    /\ UNCHANGED <<defaultInstance, client, inputInfo>>

NextQualify ==
    \/ \E input \in QualifyNames, instance \in QualifyHosts \cup {Undefined} :
           CallInputAtNonDefaultInstance("A", input, instance)
    \/ \E input \in QualifyInputs : CallSetClient("A", input, NoIds, Undefined)
    \/ QualifyInput("A")

SpecQualify == Init /\ [][NextQualify]_vars

(* Properties of qualification (SpecQualify) *)

\* the serialization of the federated identifier (localName, originHost)
Serialized(localName, originHost) ==
    IF originHost = defaultInstance THEN localName
    ELSE localName \o <<At>> \o originHost

\* x is name@host for a name without "@" and a host other than the default
QualifiedElsewhere(x) ==
    /\ Len(x) >= 2
    /\ x[Len(x) - 1] = At
    /\ <<x[Len(x)]>> \in QualifyHosts \ {defaultInstance}
    /\ \A i \in 1..(Len(x) - 2) : x[i] # At

\* C23: (localName, originHost) serializes to localName when originHost is
\* the default instance and to localName@originHost for any other host; an
\* identifier name@host with a host other than the default, split by
\* setClient and qualified again, is the identifier itself.
C23_Qualification ==
    \A c \in CallIds :
        LET call == calls[c] IN
        /\ (call.op = "inputAtNonDefaultInstance" /\ call.pc = "done"
                /\ call.args.instance \in QualifyHosts) =>
               call.results[1] = Serialized(call.args.input, call.args.instance)
        /\ (call.op = "setClient" /\ call.pc = "qualified") =>
               /\ inputInfo.instance \in QualifyHosts =>
                      call.results[1] = Serialized(inputInfo.primaryInput, inputInfo.instance)
               /\ QualifiedElsewhere(call.args.input) => call.results[1] = call.args.input

\* g@beehaw.org split and qualified again where lemmy.world is the default
C23_Witness ==
    /\ defaultInstance = lemmyWorld
    /\ calls["A"].op = "setClient"
    /\ calls["A"].pc = "qualified"
    /\ calls["A"].args.input = <<"g", At, "beehaw.org">>
    /\ inputInfo.primaryInput = <<"g">>
    /\ calls["A"].results = << <<"g", At, "beehaw.org">> >>

-----------------------------------------------------------------------------
(* processFilters tried on every spelling that could give a token of the
   sort vocabulary (SpecVocabulary) *)

\* processFilters lower-cases both tokens before anything else, so what it
\* returns depends on their lower-case spelling alone, and it returns either
\* the capitalized sort or that followed by the capitalized secondarySort.  To
\* return the token v, the lower-cased sort, or the lower-cased sort and
\* secondarySort put together, must therefore be v in lower case: the
\* lower-case spellings below are, up to the case of the letters, all the
\* inputs that can return v.  The last spelling is v as the vocabulary has it.
Spelling(v, k) ==
    IF k > Len(v) THEN [sort |-> v, secondarySort |-> Undefined]
    ELSE [sort |-> ToLowerCase(SubSeq(v, 1, k)),
          secondarySort |-> IF k = Len(v) THEN Undefined
                            ELSE ToLowerCase(SubSeq(v, k + 1, Len(v)))]

\* the number of spellings of a token
Spellings(v) == Len(v) + 1

\* One more call of processFilters, on the next spelling of the token v;
\* args.input keeps the token and results what the calls so far returned.
CallProcessFiltersInTurn(c, v) ==
    /\ \/ calls[c].op = "none"
       \/ calls[c].op = "processFilters" /\ calls[c].args.input = v
    /\ Len(calls[c].results) < Spellings(v)
    /\ LET given == Spelling(v, Len(calls[c].results) + 1)
       IN  calls' = [calls EXCEPT
                ![c].op = "processFilters", ![c].pc = "done",
                ![c].args.input = v,
                ![c].args.limit = 10,
                ![c].args.sort = given.sort,
                ![c].args.secondarySort = given.secondarySort,
                ![c].results = Append(@, processFilters(10, Undefined, given.sort,
                                                        given.secondarySort))]
    /\ UNCHANGED <<defaultInstance, client, inputInfo>>

NextVocabulary == \E v \in sortTypes : CallProcessFiltersInTurn("A", v)

SpecVocabulary == Init /\ [][NextVocabulary]_vars

(* Properties of the returned sorts (SpecVocabulary) *)

\* C24: the sorts processFilters returns are the tokens of the sort
\* vocabulary and no sort: a sort that is returned is a token of the
\* vocabulary, and every token of the vocabulary is returned for some input.
C24_ExactlyVocabulary ==
    \A c \in CallIds :
        calls[c].op = "processFilters" =>
            LET results == calls[c].results
                v == calls[c].args.input
            IN  /\ \A k \in 1..Len(results) :
                       Truthy(results[k].sort) => results[k].sort \in sortTypes
                /\ Len(results) = Spellings(v) =>
                       \E k \in 1..Len(results) : results[k].sort = v

-----------------------------------------------------------------------------
(* Overlapping calls of every operation (SpecOverlap) *)

OverlapNames == { <<"g">>, <<"g", At, "beehaw.org">> }
OverlapTypeLists == { <<"Group">>, <<"Post", "User">> }
OverlapIds == { Ids(<<"7">>, Undefined), Ids(<<"7", At, "programming.dev">>, <<"5">>) }

\* what the upstream answers: a failure, nothing, or one view
OverlapHits(searchType) == {Failure, Response(<<>>), Response(Hits(searchType, 1))}
OverlapPosts == {Failure, Response(PostsPage(1))}
OverlapComments == {Failure, Response(CommentsPage(1))}
OverlapDetails == {Failure, DetailsResponse(PostsPage(1), CommentsPage(1))}

NextOverlap ==
    \E c \in CallIds :
        \/ \E group \in OverlapNames : InvokeGetGroup(c, group)
        \/ \E resp \in GroupResponses : RespondGetGroup(c, resp)
        \/ \E username \in OverlapNames : InvokeGetUser(c, username)
        \/ \E resp \in UserResponses : RespondGetUser(c, resp)
        \/ \E id \in PostIds, group \in OverlapNames : InvokeGetPost(c, id, group)
        \/ \E resp \in PostResponses : RespondGetPost(c, resp)
        \/ \E ok \in BOOLEAN : EnrichGetPost(c, ok)
        \/ \E group \in OverlapNames :
               InvokeGetPosts(c, group, 10, Undefined, Undefined, Undefined)
        \/ \E resp \in OverlapPosts : RespondGetPosts(c, resp)
        \/ \E ok \in BOOLEAN : EnrichGetPosts(c, 1, ok)
        \/ \E username \in OverlapNames :
               InvokeGetUserDetails(c, 10, Undefined, Undefined, Undefined, "Overview",
                                    username)
        \/ \E resp \in OverlapDetails : RespondGetUserDetails(c, resp)
        \/ \E ok \in BOOLEAN : EnrichUserDetails(c, 1, ok)
        \/ \E ids \in OverlapIds, group \in OverlapNames :
               InvokeGetNestedComments(c, ids, 10, 8, Undefined, group)
        \/ \E resp \in PostResponses : RespondNestedPost(c, resp)
        \/ \E ok \in BOOLEAN : EnrichNestedPost(c, ok)
        \/ \E resp \in OverlapComments : RespondNestedComments(c, resp)
        \/ \E query \in OverlapNames, searchType \in OverlapTypeLists :
               InvokeAutocomplete(c, 10, query, searchType)
        \/ \E j \in 1..Len(calls[c].args.searchType) :
               \E resp \in OverlapHits(calls[c].args.searchType[j]) :
                   RespondAutocomplete(c, j, resp)
        \/ \E query \in OverlapNames, group \in {Undefined, <<"m", At, "lemmy.ml">>},
              searchType \in OverlapTypeLists :
               InvokeSearch(c, group, query, FALSE, 10, Undefined, Undefined,
                            Undefined, searchType, FALSE)
        \/ \E j \in 1..Len(calls[c].args.searchType) :
               \E resp \in OverlapHits(calls[c].args.searchType[j]) :
                   RespondSearch(c, j, resp)
        \/ \E j \in 1..2, ok \in BOOLEAN : EnrichSearchPost(c, j, 1, ok)

SpecOverlap == Init /\ [][NextOverlap]_vars

(* Properties of the connection of a request (SpecOverlap) *)

\* the connection the call's own setClient opens before its request j
OwnConnection(call, j) ==
    LET args == call.args IN
    IF call.op = "getGroup" THEN SetClient(args.group, NoIds, Undefined).client
    ELSE IF call.op \in {"getUser", "getUserDetails"}
    THEN SetClient(args.username, NoIds, Undefined).client
    ELSE IF call.op = "getPost"
    THEN SetClient(args.group, Ids(args.id, Undefined), Undefined).client
    ELSE IF call.op = "getPosts" THEN SetClient(args.group, NoIds, Undefined).client
    ELSE IF call.op = "getNestedComments"
    THEN (IF j = 1
          THEN SetClient(args.group, Ids(args.ids.postId, Undefined), Undefined).client
          ELSE SetClient(args.group, args.ids, Undefined).client)
    ELSE IF call.op = "search" THEN SetClient(args.query, NoIds, args.group).client
    ELSE SetClient(args.query, NoIds, Undefined).client

\* C25: whatever calls overlap on the service object, every upstream request
\* of a call, the two of getNestedComments and the one per category of search
\* and autocomplete among them, went over the connection that the call's own
\* setClient opened last before the request.
C25_OwnConnection ==
    \A c \in CallIds :
        \A j \in 1..Len(calls[c].reqs) :
            calls[c].reqs[j].host = OwnConnection(calls[c], j)

\* getNestedComments has sent its second request to programming.dev after an
\* autocomplete, still awaiting its two categories at beehaw.org, was called
C25_Witness ==
    /\ calls["A"].op = "getNestedComments"
    /\ Len(calls["A"].reqs) = 2
    /\ calls["A"].reqs[1].host = <<"https://", "programming.dev">>
    /\ calls["A"].reqs[2].host = <<"https://", "programming.dev">>
    /\ calls["B"].op = "autocomplete"
    /\ calls["B"].pc = "await"
    /\ Len(calls["B"].reqs) = 2
    /\ \A j \in 1..2 : calls["B"].reqs[j].host = <<"https://">> \o beehaw
    /\ client = <<"https://", "programming.dev">>

====
